---- MODULE Spec2Model ----
(***************************************************************************)
(* A model of the mystery game's world state (src/models) and of the       *)
(* action handlers of SimpleGameEngine (src/game_engine/simple_engine.py). *)
(*                                                                         *)
(* The WorldState object is the variable `world`; every method of the      *)
(* model classes is an operator from the old object to the new one, and    *)
(* every handler of the engine an operator from the old world to the new   *)
(* one, paired with what the call returns.                                 *)
(*                                                                         *)
(* Python dicts are functions, Optional values use None, sets are sets.    *)
(* The player's clues_found, locations_visited, npcs_met and               *)
(* completed_quests are lists that are appended to only under a            *)
(* `not in` test and are read only with `in`: they are sets here.  The     *)
(* inventory, whose length is read, stays a sequence.  Narrative strings   *)
(* are dropped; a handler's return value is a tag naming the branch that   *)
(* produced it.                                                            *)
(***************************************************************************)
EXTENDS Integers, Sequences, FiniteSets, TLC

VARIABLE world

vars == <<world>>

None == "None"

EmptyDict == << >>

Max(a, b) == IF a >= b THEN a ELSE b

Min(a, b) == IF a <= b THEN a ELSE b

InSeq(x, s) == \E i \in DOMAIN s : s[i] = x

Range(s) == {s[i] : i \in DOMAIN s}

TakeAll(s, n) == s

\* lst[:n]
Take(s, n) == SubSeq(s, 1, Min(n, Len(s)))

(***************************************************************************)
(* models/npc.py                                                           *)
(***************************************************************************)

NPCMemory ==
    [times_talked |-> 0, topics_discussed |-> {}, clues_shown |-> {},
     last_interaction |-> None]

\* NPC(...): the dataclass defaults for every field not given
NPC(current_location, trust_level, knows_clues, will_share_clues) ==
    [current_location |-> current_location,
     trust_level |-> trust_level,
     mood |-> "neutral",
     relationship_status |-> "stranger",
     memory |-> NPCMemory,
     knows_clues |-> knows_clues,
     will_share_clues |-> will_share_clues]

update_relationship_status(npc) ==
    [npc EXCEPT !.relationship_status =
        IF npc.trust_level >= 80 THEN "friend"
        ELSE IF npc.trust_level >= 50 THEN "acquaintance"
        ELSE IF npc.trust_level >= 20 THEN "stranger"
        ELSE "enemy"]

update_mood_strict(npc) ==
    [npc EXCEPT !.mood =
        IF npc.trust_level > 70 THEN "friendly"
        ELSE IF npc.trust_level > 40 THEN "neutral"
        ELSE IF npc.trust_level > 20 THEN "suspicious"
        ELSE "hostile"]

update_mood(npc) ==
    [npc EXCEPT !.mood =
        IF npc.trust_level >= 70 THEN "friendly"
        ELSE IF npc.trust_level >= 40 THEN "neutral"
        ELSE IF npc.trust_level >= 20 THEN "suspicious"
        ELSE "hostile"]

modify_trust_wrapping(npc, amount) ==
    update_mood(update_relationship_status(
        [npc EXCEPT !.trust_level = (npc.trust_level + amount) % 101]))

modify_trust(npc, amount) ==
    update_mood(update_relationship_status(
        [npc EXCEPT !.trust_level = Max(0, Min(100, npc.trust_level + amount))]))

talk_to(npc, topic) ==
    LET n1 == [npc EXCEPT !.memory.times_talked = @ + 1]
    IN  IF topic # None
        THEN [n1 EXCEPT !.memory.topics_discussed = @ \cup {topic},
                        !.memory.last_interaction = topic]
        ELSE n1

show_clue(npc, clue_id) ==
    [npc EXCEPT !.memory.clues_shown = @ \cup {clue_id}]

move_to(npc, location_id) == [npc EXCEPT !.current_location = location_id]

can_share_clue_any_trust(npc, clue_id) ==
    clue_id \in npc.will_share_clues

can_share_clue(npc, clue_id) ==
    clue_id \in npc.will_share_clues /\ npc.trust_level >= 30

share_clue_from_known(npc, clue_id) ==
    IF can_share_clue(npc, clue_id)
    THEN [npc |-> [npc EXCEPT !.will_share_clues = npc.knows_clues \ {clue_id}],
          ret |-> TRUE]
    ELSE [npc |-> npc, ret |-> FALSE]

\* the NPC after the call, and the call's return value
share_clue(npc, clue_id) ==
    IF can_share_clue(npc, clue_id)
    THEN [npc |-> [npc EXCEPT !.will_share_clues = @ \ {clue_id}], ret |-> TRUE]
    ELSE [npc |-> npc, ret |-> FALSE]

(***************************************************************************)
(* models/quest.py                                                         *)
(***************************************************************************)

QuestObjective(objective_type, target_id, quantity, requires_objectives) ==
    [objective_type |-> objective_type,
     target_id |-> target_id,
     quantity |-> quantity,
     completed |-> FALSE,
     progress |-> 0,
     requires_objectives |-> requires_objectives]

\* Quest(...): `order` is the insertion order of the objectives dict
Quest(status) ==
    [status |-> status,
     objectives |-> EmptyDict,
     order |-> << >>,
     completed_objectives |-> {},
     requires_quests |-> << >>,
     requires_clues |-> << >>,
     requires_location |-> None]

is_available_any(obj, completed_objectives) ==
    \E i \in DOMAIN obj.requires_objectives :
        obj.requires_objectives[i] \in completed_objectives

is_available_always(obj, completed_objectives) == TRUE

is_available(obj, completed_objectives) ==
    \A i \in DOMAIN obj.requires_objectives :
        obj.requires_objectives[i] \in completed_objectives

\* the objective after the call, and the call's return value
advance_progress(obj, amount) ==
    LET p == Min(obj.quantity, obj.progress + amount)
    IN  IF p >= obj.quantity
        THEN [obj |-> [obj EXCEPT !.progress = p, !.completed = TRUE], ret |-> TRUE]
        ELSE [obj |-> [obj EXCEPT !.progress = p], ret |-> FALSE]

\* self.objectives[objective.id] = objective
add_objective(quest, id, obj) ==
    [quest EXCEPT !.objectives = (id :> obj) @@ @,
                  !.order = IF InSeq(id, @) THEN @ ELSE Append(@, id)]

get_uncompleted_objectives(quest) ==
    LET Test(id) == ~quest.objectives[id].completed
    IN  SelectSeq(quest.order, Test)

\* the identifiers of the objectives returned, in the dict's order
get_available_objectives(quest) ==
    LET Test(id) == /\ ~quest.objectives[id].completed
                    /\ is_available(quest.objectives[id], quest.completed_objectives)
    IN  SelectSeq(quest.order, Test)

\* the quest after the call, and the call's return value
complete_objective(quest, objective_id) ==
    IF objective_id \in DOMAIN quest.objectives
       /\ ~quest.objectives[objective_id].completed
    THEN LET q1 == [quest EXCEPT
                       !.objectives[objective_id].completed = TRUE,
                       !.completed_objectives = @ \cup {objective_id}]
         IN  IF \A o \in DOMAIN q1.objectives : q1.objectives[o].completed
             THEN [quest |-> [q1 EXCEPT !.status = "completed"], ret |-> TRUE]
             ELSE [quest |-> q1, ret |-> FALSE]
    ELSE [quest |-> quest, ret |-> FALSE]

is_unlocked_anywhere(quest, player) ==
    /\ \A i \in DOMAIN quest.requires_quests :
           quest.requires_quests[i] \in player.completed_quests
    /\ \A i \in DOMAIN quest.requires_clues :
           quest.requires_clues[i] \in player.clues_found

\* `self.requires_location and ...`: None and the empty string are falsy
is_unlocked(quest, player) ==
    /\ \A i \in DOMAIN quest.requires_quests :
           quest.requires_quests[i] \in player.completed_quests
    /\ \A i \in DOMAIN quest.requires_clues :
           quest.requires_clues[i] \in player.clues_found
    /\ ~(quest.requires_location \notin {None, ""}
         /\ player.current_location # quest.requires_location)

start(quest) ==
    IF quest.status = "available" THEN [quest EXCEPT !.status = "active"] ELSE quest

complete(quest) == [quest EXCEPT !.status = "completed"]

fail(quest) == [quest EXCEPT !.status = "failed"]

(***************************************************************************)
(* models/location.py                                                      *)
(***************************************************************************)

LocationRequirement(requires_item, requires_clue, requires_quest, requires_npc_trust) ==
    [requires_item |-> requires_item,
     requires_clue |-> requires_clue,
     requires_quest |-> requires_quest,
     requires_npc_trust |-> requires_npc_trust]

\* Location(...): the dataclass defaults for every field not given
Location(npcs_present, items_available, clues_available, connections) ==
    [connections |-> connections,
     connection_requirements |-> EmptyDict,
     state |-> "available",
     visited |-> FALSE,
     search_count |-> 0,
     npcs_present |-> npcs_present,
     items_available |-> items_available,
     clues_available |-> clues_available,
     items_taken |-> {},
     clues_found |-> {}]

has_item(player, item_id) == InSeq(item_id, player.inventory)

is_met_any_condition(req, player, world_state) ==
    \/ /\ req.requires_item = None /\ req.requires_clue = None
       /\ req.requires_quest = None /\ req.requires_npc_trust = << >>
    \/ req.requires_item # None /\ has_item(player, req.requires_item)
    \/ req.requires_clue # None /\ req.requires_clue \in player.clues_found
    \/ req.requires_quest # None /\ req.requires_quest \in player.completed_quests
    \/ /\ req.requires_npc_trust # << >>
       /\ req.requires_npc_trust[1] \in DOMAIN world_state.npcs
       /\ world_state.npcs[req.requires_npc_trust[1]].trust_level
              >= req.requires_npc_trust[2]

\* requires_npc_trust is << >> (None) or <<npc_id, min_trust>>
is_met(req, player, world_state) ==
    /\ ~(req.requires_item # None /\ ~has_item(player, req.requires_item))
    /\ ~(req.requires_clue # None /\ req.requires_clue \notin player.clues_found)
    /\ ~(req.requires_quest # None /\ req.requires_quest \notin player.completed_quests)
    /\ ~(req.requires_npc_trust # << >>
         /\ LET npc_id == req.requires_npc_trust[1]
                min_trust == req.requires_npc_trust[2]
            IN  \/ npc_id \notin DOMAIN world_state.npcs
                \/ world_state.npcs[npc_id].trust_level < min_trust)

\* requirement is << >> (None) or <<a LocationRequirement>>
add_connection(location, location_id, requirement) ==
    [location EXCEPT
        !.connections = IF InSeq(location_id, @) THEN @ ELSE Append(@, location_id),
        !.connection_requirements =
            IF requirement # << >> THEN (location_id :> requirement[1]) @@ @ ELSE @]

can_travel_to_ungated(location, location_id, player, world_state) ==
    IF ~InSeq(location_id, location.connections)
    THEN "Location not connected"
    ELSE "Can travel"

\* the tag of the message returned: "Can travel" means allowed
can_travel_to(location, location_id, player, world_state) ==
    IF ~InSeq(location_id, location.connections)
    THEN "Location not connected"
    ELSE IF location_id \in DOMAIN location.connection_requirements
            /\ ~is_met(location.connection_requirements[location_id], player, world_state)
         THEN "Requirements not met"
         ELSE "Can travel"

get_available_items(location) ==
    LET Test(item) == item \notin location.items_taken
    IN  SelectSeq(location.items_available, Test)

get_available_clues(location) ==
    LET Test(clue) == clue \notin location.clues_found
    IN  SelectSeq(location.clues_available, Test)

take_item_unlisted(location, item_id) ==
    IF item_id \notin location.items_taken
    THEN [location |-> [location EXCEPT !.items_taken = @ \cup {item_id}], ret |-> TRUE]
    ELSE [location |-> location, ret |-> FALSE]

\* the location after the call, and the call's return value
take_item(location, item_id) ==
    IF InSeq(item_id, location.items_available) /\ item_id \notin location.items_taken
    THEN [location |-> [location EXCEPT !.items_taken = @ \cup {item_id}], ret |-> TRUE]
    ELSE [location |-> location, ret |-> FALSE]

find_clue_counting(location, clue_id) ==
    IF InSeq(clue_id, location.clues_available)
    THEN [location |-> [location EXCEPT !.clues_found = @ \cup {clue_id},
                                        !.search_count = @ + 1],
          ret |-> TRUE]
    ELSE [location |-> location, ret |-> FALSE]

\* the location after the call, and the call's return value
find_clue(location, clue_id) ==
    IF InSeq(clue_id, location.clues_available) /\ clue_id \notin location.clues_found
    THEN [location |-> [location EXCEPT !.clues_found = @ \cup {clue_id}], ret |-> TRUE]
    ELSE [location |-> location, ret |-> FALSE]

visit_counting(location) ==
    [location EXCEPT !.visited = TRUE, !.search_count = @ + 1]

visit(location) ==
    [location EXCEPT !.visited = TRUE,
                     !.state = IF @ = "available" THEN "active" ELSE @]

search(location) ==
    LET l1 == [location EXCEPT !.search_count = @ + 1]
    IN  IF Len(get_available_clues(l1)) = 0 /\ Len(get_available_items(l1)) = 0
        THEN [l1 EXCEPT !.state = "searched"]
        ELSE l1

(***************************************************************************)
(* models/player.py and models/item.py                                     *)
(***************************************************************************)

PlayerStats(investigation, persuasion, perception, intuition, physical) ==
    [investigation |-> investigation, persuasion |-> persuasion,
     perception |-> perception, intuition |-> intuition, physical |-> physical]

\* str.lower(), on the stat names that occur
lower(name) ==
    CASE name = "Investigation" -> "investigation"
      [] name = "Perception" -> "perception"
      [] OTHER -> name

\* getattr(self, stat_name.lower(), 0)
get_stat(stats, stat_name) ==
    IF lower(stat_name) \in DOMAIN stats THEN stats[lower(stat_name)] ELSE 0

Player(stats, current_location) ==
    [stats |-> stats,
     inventory |-> << >>,
     current_location |-> current_location,
     clues_found |-> {},
     locations_visited |-> {},
     npcs_met |-> {},
     completed_quests |-> {}]

add_item(player, item_id) ==
    IF InSeq(item_id, player.inventory) THEN player
    ELSE [player EXCEPT !.inventory = Append(@, item_id)]

add_clue(player, clue_id) == [player EXCEPT !.clues_found = @ \cup {clue_id}]

visit_location(player, location_id) ==
    [player EXCEPT !.current_location = location_id,
                   !.locations_visited = @ \cup {location_id}]

meet_npc(player, npc_id) == [player EXCEPT !.npcs_met = @ \cup {npc_id}]

complete_quest(player, quest_id) ==
    [player EXCEPT !.completed_quests = @ \cup {quest_id}]

Item(is_clue) == [is_clue |-> is_clue]

Clue(requires_stat, requires_stat_level) ==
    [requires_stat |-> requires_stat, requires_stat_level |-> requires_stat_level]

(***************************************************************************)
(* models/world.py                                                         *)
(***************************************************************************)

StartTime == 480

StartDay == 1

MinutesPerDay == 1440

WorldState(player, locations, npcs, items, clues, quests) ==
    [player |-> player, locations |-> locations, npcs |-> npcs, items |-> items,
     clues |-> clues, quests |-> quests,
     current_time |-> StartTime, current_day |-> StartDay]

get_npcs_anywhere(w, location_id) == DOMAIN w.npcs

get_npcs_at_location(w, location_id) ==
    {n \in DOMAIN w.npcs : w.npcs[n].current_location = location_id}

get_active_quests(w) == {q \in DOMAIN w.quests : w.quests[q].status = "active"}

advance_time_strict(w, minutes) ==
    LET t == w.current_time + minutes
    IN  IF t > MinutesPerDay
        THEN [w EXCEPT !.current_time = t - MinutesPerDay, !.current_day = @ + 1]
        ELSE [w EXCEPT !.current_time = t]

advance_time(w, minutes) ==
    LET t == w.current_time + minutes
    IN  IF t >= MinutesPerDay
        THEN [w EXCEPT !.current_time = t - MinutesPerDay, !.current_day = @ + 1]
        ELSE [w EXCEPT !.current_time = t]

(***************************************************************************)
(* to_dict / from_dict of the model classes.  A snapshot holds every set   *)
(* as a list and every enumerated field as its string tag, which is how    *)
(* the records here hold them already; a key that to_dict does not write   *)
(* comes back from from_dict as the default of the dataclass.              *)
(***************************************************************************)

\* list(a_set): the elements in some order
RECURSIVE SetToList(_)
SetToList(S) ==
    IF S = {} THEN << >>
    ELSE LET x == CHOOSE y \in S : TRUE IN <<x>> \o SetToList(S \ {x})

Location_to_dict(location) ==
    [connections |-> location.connections,
     state |-> location.state,
     visited |-> location.visited,
     search_count |-> location.search_count,
     npcs_present |-> location.npcs_present,
     items_available |-> location.items_available,
     clues_available |-> location.clues_available,
     items_taken |-> SetToList(location.items_taken),
     clues_found |-> SetToList(location.clues_found)]

Location_from_dict(data) ==
    [connections |-> data.connections,
     connection_requirements |-> EmptyDict,
     state |-> data.state,
     visited |-> data.visited,
     search_count |-> data.search_count,
     npcs_present |-> data.npcs_present,
     items_available |-> data.items_available,
     clues_available |-> data.clues_available,
     items_taken |-> Range(data.items_taken),
     clues_found |-> Range(data.clues_found)]

Player_to_dict(player) ==
    [stats |-> [investigation |-> player.stats.investigation,
                persuasion |-> player.stats.persuasion,
                perception |-> player.stats.perception,
                intuition |-> player.stats.intuition,
                physical |-> player.stats.physical],
     inventory |-> player.inventory,
     current_location |-> player.current_location,
     clues_found |-> player.clues_found,
     locations_visited |-> player.locations_visited,
     npcs_met |-> player.npcs_met,
     completed_quests |-> player.completed_quests]

Player_from_dict(data) ==
    [stats |-> PlayerStats(data.stats.investigation, data.stats.persuasion,
                           data.stats.perception, data.stats.intuition,
                           data.stats.physical),
     inventory |-> data.inventory,
     current_location |-> data.current_location,
     clues_found |-> data.clues_found,
     locations_visited |-> data.locations_visited,
     npcs_met |-> data.npcs_met,
     completed_quests |-> data.completed_quests]

NPC_to_dict(npc) ==
    [current_location |-> npc.current_location,
     trust_level |-> npc.trust_level,
     mood |-> npc.mood,
     relationship_status |-> npc.relationship_status,
     memory |-> [times_talked |-> npc.memory.times_talked,
                 topics_discussed |-> SetToList(npc.memory.topics_discussed),
                 clues_shown |-> SetToList(npc.memory.clues_shown),
                 last_interaction |-> npc.memory.last_interaction],
     knows_clues |-> SetToList(npc.knows_clues),
     will_share_clues |-> SetToList(npc.will_share_clues)]

NPC_from_dict(data) ==
    [current_location |-> data.current_location,
     trust_level |-> data.trust_level,
     mood |-> data.mood,
     relationship_status |-> data.relationship_status,
     memory |-> [times_talked |-> data.memory.times_talked,
                 topics_discussed |-> Range(data.memory.topics_discussed),
                 clues_shown |-> Range(data.memory.clues_shown),
                 last_interaction |-> data.memory.last_interaction],
     knows_clues |-> Range(data.knows_clues),
     will_share_clues |-> Range(data.will_share_clues)]

Item_to_dict(item) == [is_clue |-> item.is_clue]

Item_from_dict(data) == Item(data.is_clue)

Clue_to_dict(clue) ==
    [requires_stat |-> clue.requires_stat,
     requires_stat_level |-> clue.requires_stat_level]

Clue_from_dict(data) == Clue(data.requires_stat, data.requires_stat_level)

Quest_to_dict(quest) ==
    [status |-> quest.status,
     objectives |->
         [o \in DOMAIN quest.objectives |->
             [objective_type |-> quest.objectives[o].objective_type,
              target_id |-> quest.objectives[o].target_id,
              quantity |-> quest.objectives[o].quantity,
              completed |-> quest.objectives[o].completed,
              progress |-> quest.objectives[o].progress,
              requires_objectives |-> quest.objectives[o].requires_objectives]],
     order |-> quest.order,
     completed_objectives |-> SetToList(quest.completed_objectives),
     requires_quests |-> quest.requires_quests,
     requires_clues |-> quest.requires_clues,
     requires_location |-> quest.requires_location]

Quest_from_dict(data) ==
    [status |-> data.status,
     objectives |->
         [o \in DOMAIN data.objectives |->
             [QuestObjective(data.objectives[o].objective_type,
                             data.objectives[o].target_id,
                             data.objectives[o].quantity,
                             data.objectives[o].requires_objectives)
                 EXCEPT !.completed = data.objectives[o].completed,
                        !.progress = data.objectives[o].progress]],
     order |-> data.order,
     completed_objectives |-> Range(data.completed_objectives),
     requires_quests |-> data.requires_quests,
     requires_clues |-> data.requires_clues,
     requires_location |-> data.requires_location]

WorldState_to_dict(w) ==
    [player |-> Player_to_dict(w.player),
     locations |-> [l \in DOMAIN w.locations |-> Location_to_dict(w.locations[l])],
     npcs |-> [n \in DOMAIN w.npcs |-> NPC_to_dict(w.npcs[n])],
     items |-> [i \in DOMAIN w.items |-> Item_to_dict(w.items[i])],
     clues |-> [c \in DOMAIN w.clues |-> Clue_to_dict(w.clues[c])],
     quests |-> [q \in DOMAIN w.quests |-> Quest_to_dict(w.quests[q])],
     current_time |-> w.current_time,
     current_day |-> w.current_day]

WorldState_from_dict(data) ==
    [WorldState(
         Player_from_dict(data.player),
         [l \in DOMAIN data.locations |-> Location_from_dict(data.locations[l])],
         [n \in DOMAIN data.npcs |-> NPC_from_dict(data.npcs[n])],
         [i \in DOMAIN data.items |-> Item_from_dict(data.items[i])],
         [c \in DOMAIN data.clues |-> Clue_from_dict(data.clues[c])],
         [q \in DOMAIN data.quests |-> Quest_from_dict(data.quests[q])])
        EXCEPT !.current_time = data.current_time,
               !.current_day = data.current_day]

(***************************************************************************)
(* game_engine/simple_engine.py                                            *)
(***************************************************************************)

TravelMinutes == 15

SearchCap == 2

\* the values of a dict, in the dict's order; the order among the keys is
\* not kept by the model and is fixed arbitrarily
RECURSIVE Values(_)
Values(S) ==
    IF S = {} THEN << >>
    ELSE LET x == CHOOSE y \in S : TRUE IN <<x>> \o Values(S \ {x})

\* for conn_id in location.connections: ... the travel entries
RECURSIVE travel_actions(_, _)
travel_actions(w, conn_ids) ==
    IF conn_ids = << >> THEN << >>
    ELSE LET conn_id == Head(conn_ids)
             location == w.locations[w.player.current_location]
             entry == IF conn_id \in DOMAIN w.locations
                         /\ can_travel_to(location, conn_id, w.player, w) = "Can travel"
                      THEN <<[id |-> <<"travel_", conn_id>>, type |-> "travel",
                              target |-> conn_id]>>
                      ELSE << >>
         IN  entry \o travel_actions(w, Tail(conn_ids))

\* the list of action records returned
get_available_actions(w) ==
    IF w.player.current_location \notin DOMAIN w.locations THEN << >>
    ELSE LET location == w.locations[w.player.current_location]
             npcs_here == Values(get_npcs_at_location(w, w.player.current_location))
             examine == <<[id |-> <<"examine_location">>, type |-> "examine",
                           target |-> None]>>
             talk == [i \in DOMAIN npcs_here |->
                         [id |-> <<"talk_", npcs_here[i]>>, type |-> "talk",
                          target |-> npcs_here[i]]]
             search_entry ==
                 IF Len(get_available_items(location)) > 0
                    \/ Len(get_available_clues(location)) > 0
                 THEN <<[id |-> <<"search">>, type |-> "search", target |-> None]>>
                 ELSE << >>
         IN  examine \o talk \o search_entry \o travel_actions(w, location.connections)

\* what a handler returns: the world it leaves, the tag of its narrative and
\* its discoveries
Result(w, narrative, discoveries) ==
    [world |-> w, narrative |-> narrative, discoveries |-> discoveries]

examine_location(w, location_id) ==
    Result([w EXCEPT !.locations[location_id] = visit(@),
                     !.player = visit_location(@, location_id)],
           "examined", << >>)

RECURSIVE share_clues_sharing_first(_, _, _)
share_clues_sharing_first(w, npc_id, todo) ==
    IF todo = {} THEN w
    ELSE LET clue_id == CHOOSE c \in todo : TRUE
             shared == share_clue(w.npcs[npc_id], clue_id)
             w1 == IF shared.ret
                   THEN IF clue_id \in DOMAIN w.clues
                        THEN [w EXCEPT !.npcs[npc_id] = shared.npc,
                                       !.player = add_clue(@, clue_id)]
                        ELSE [w EXCEPT !.npcs[npc_id] = shared.npc]
                   ELSE w
         IN  share_clues_sharing_first(w1, npc_id, todo \ {clue_id})

\* for clue_id in list(npc.will_share_clues): ... over the clues in `todo`
RECURSIVE share_clues(_, _, _)
share_clues(w, npc_id, todo) ==
    IF todo = {} THEN w
    ELSE LET clue_id == CHOOSE c \in todo : TRUE
             shared == share_clue(w.npcs[npc_id], clue_id)
             w1 == IF can_share_clue(w.npcs[npc_id], clue_id)
                      /\ clue_id \in DOMAIN w.clues
                      /\ shared.ret
                   THEN [w EXCEPT !.npcs[npc_id] = shared.npc,
                                  !.player = add_clue(@, clue_id)]
                   ELSE w
         IN  share_clues(w1, npc_id, todo \ {clue_id})

talk_to_npc_meeting_first(w, npc_id) ==
    IF npc_id \notin DOMAIN w.npcs
    THEN Result([w EXCEPT !.player = meet_npc(@, npc_id)],
                "That person is not here.", << >>)
    ELSE LET w1 == [w EXCEPT !.player = meet_npc(@, npc_id),
                             !.npcs[npc_id] = talk_to(@, None)]
             w2 == share_clues(w1, npc_id, w1.npcs[npc_id].will_share_clues)
         IN  Result(w2,
                    IF w2.npcs[npc_id].will_share_clues # w1.npcs[npc_id].will_share_clues
                    THEN "shares some information" ELSE "no clue shared",
                    << >>)

talk_to_npc(w, npc_id) ==
    IF npc_id \notin DOMAIN w.npcs
    THEN Result(w, "That person is not here.", << >>)
    ELSE LET w1 == [w EXCEPT !.player = meet_npc(@, npc_id),
                             !.npcs[npc_id] = talk_to(@, None)]
             w2 == share_clues(w1, npc_id, w1.npcs[npc_id].will_share_clues)
         IN  Result(w2,
                    IF w2.npcs[npc_id].will_share_clues # w1.npcs[npc_id].will_share_clues
                    THEN "shares some information" ELSE "no clue shared",
                    << >>)

RECURSIVE search_items_leaving(_, _, _)
search_items_leaving(r, location_id, item_ids) ==
    IF item_ids = << >> THEN r
    ELSE LET item_id == Head(item_ids)
             w == r.world
             w1 == IF item_id \in DOMAIN w.items
                   THEN [w EXCEPT !.player = add_item(w.player, item_id)]
                   ELSE w
         IN  search_items_leaving([world |-> w1, discoveries |-> r.discoveries],
                                  location_id, Tail(item_ids))

\* for item_id in available_items[:2]: ...; r is [world, discoveries]
RECURSIVE search_items(_, _, _)
search_items(r, location_id, item_ids) ==
    IF item_ids = << >> THEN r
    ELSE LET item_id == Head(item_ids)
             w == r.world
             w1 == IF item_id \in DOMAIN w.items
                   THEN LET p1 == add_item(w.player, item_id)
                        IN  [w EXCEPT !.locations[location_id] = take_item(@, item_id).location,
                                      !.player = IF w.items[item_id].is_clue
                                                 THEN add_clue(p1, item_id) ELSE p1]
                   ELSE w
             d1 == IF item_id \in DOMAIN w.items
                   THEN Append(r.discoveries, item_id) ELSE r.discoveries
         IN  search_items([world |-> w1, discoveries |-> d1], location_id, Tail(item_ids))

can_find_any_level(w, clue_id) == TRUE

can_find(w, clue_id) ==
    IF w.clues[clue_id].requires_stat # None
    THEN get_stat(w.player.stats, w.clues[clue_id].requires_stat)
             >= w.clues[clue_id].requires_stat_level
    ELSE TRUE

\* for clue_id in available_clues[:2]: ...
RECURSIVE search_clues(_, _, _)
search_clues(r, location_id, clue_ids) ==
    IF clue_ids = << >> THEN r
    ELSE LET clue_id == Head(clue_ids)
             w == r.world
             found == clue_id \in DOMAIN w.clues /\ can_find(w, clue_id)
             w1 == IF found
                   THEN [w EXCEPT !.locations[location_id] = find_clue(@, clue_id).location,
                                  !.player = add_clue(@, clue_id)]
                   ELSE w
             d1 == IF found THEN Append(r.discoveries, clue_id) ELSE r.discoveries
         IN  search_clues([world |-> w1, discoveries |-> d1], location_id, Tail(clue_ids))

trigger_ignoring_quantity(obj, player) ==
    IF obj.objective_type = "go_to_location"
    THEN player.current_location = obj.target_id
    ELSE IF obj.objective_type = "collect_item"
    THEN obj.target_id = None \/ has_item(player, obj.target_id)
    ELSE IF obj.objective_type = "find_clue"
    THEN obj.target_id \in player.clues_found
    ELSE IF obj.objective_type = "talk_to_npc"
    THEN obj.target_id \in player.npcs_met
    ELSE FALSE

trigger_confronting(obj, player) ==
    IF obj.objective_type = "go_to_location"
    THEN player.current_location = obj.target_id
    ELSE IF obj.objective_type = "collect_item"
    THEN IF obj.target_id # None /\ has_item(player, obj.target_id) THEN TRUE
         ELSE IF obj.target_id = None THEN Len(player.inventory) >= obj.quantity
         ELSE FALSE
    ELSE IF obj.objective_type = "find_clue"
    THEN obj.target_id \in player.clues_found
    ELSE obj.target_id \in player.npcs_met

\* the condition under which _update_quest_progress completes an objective
trigger(obj, player) ==
    IF obj.objective_type = "go_to_location"
    THEN player.current_location = obj.target_id
    ELSE IF obj.objective_type = "collect_item"
    THEN IF obj.target_id # None /\ has_item(player, obj.target_id) THEN TRUE
         ELSE IF obj.target_id = None THEN Len(player.inventory) >= obj.quantity
         ELSE FALSE
    ELSE IF obj.objective_type = "find_clue"
    THEN obj.target_id \in player.clues_found
    ELSE IF obj.objective_type = "talk_to_npc"
    THEN obj.target_id \in player.npcs_met
    ELSE FALSE

\* for obj in quest.get_available_objectives(): ... over the list `ids`,
\* which was computed before the loop
RECURSIVE update_objectives(_, _, _)
update_objectives(quest, player, ids) ==
    IF ids = << >> THEN quest
    ELSE LET q1 == IF trigger(quest.objectives[Head(ids)], player)
                   THEN complete_objective(quest, Head(ids)).quest
                   ELSE quest
         IN  update_objectives(q1, player, Tail(ids))

update_quest_progress(w) ==
    [w EXCEPT !.quests =
        [q \in DOMAIN w.quests |->
            IF q \in get_active_quests(w)
            THEN update_objectives(w.quests[q], w.player,
                                   get_available_objectives(w.quests[q]))
            ELSE w.quests[q]]]

search_location(w, location_id) ==
    LET w1 == [w EXCEPT !.locations[location_id] = search(@)]
        r1 == search_items([world |-> w1, discoveries |-> << >>], location_id,
                           Take(get_available_items(w1.locations[location_id]), SearchCap))
        r2 == search_clues(r1, location_id,
                           Take(get_available_clues(r1.world.locations[location_id]),
                                SearchCap))
    IN  Result(update_quest_progress(r2.world), "searched", r2.discoveries)

travel_to_clock_first(w, location_id) ==
    IF location_id \notin DOMAIN w.locations
    THEN Result(w, "That location doesn't exist.", << >>)
    ELSE LET msg == can_travel_to(w.locations[w.player.current_location], location_id,
                                  w.player, w)
             w0 == advance_time(w, TravelMinutes)
         IN  IF msg # "Can travel"
             THEN Result(w0, msg, << >>)
             ELSE LET w1 == [w0 EXCEPT !.player = visit_location(@, location_id),
                                       !.locations[location_id] = visit(@)]
                  IN  Result(examine_location(w1, location_id).world, "traveled", << >>)

travel_to_anywhere(w, location_id) ==
    IF location_id \notin DOMAIN w.locations
    THEN Result(w, "That location doesn't exist.", << >>)
    ELSE LET w1 == [w EXCEPT !.player = visit_location(@, location_id),
                             !.locations[location_id] = visit(@)]
             w2 == advance_time(w1, TravelMinutes)
         IN  Result(examine_location(w2, location_id).world, "traveled", << >>)

travel_to_instantly(w, location_id) ==
    IF location_id \notin DOMAIN w.locations
    THEN Result(w, "That location doesn't exist.", << >>)
    ELSE LET msg == can_travel_to(w.locations[w.player.current_location], location_id,
                                  w.player, w)
         IN  IF msg # "Can travel"
             THEN Result(w, msg, << >>)
             ELSE LET w1 == [w EXCEPT !.player = visit_location(@, location_id),
                                      !.locations[location_id] = visit(@)]
                  IN  Result(examine_location(w1, location_id).world, "traveled", << >>)

travel_to(w, location_id) ==
    IF location_id \notin DOMAIN w.locations
    THEN Result(w, "That location doesn't exist.", << >>)
    ELSE LET msg == can_travel_to(w.locations[w.player.current_location], location_id,
                                  w.player, w)
         IN  IF msg # "Can travel"
             THEN Result(w, msg, << >>)
             ELSE LET w1 == [w EXCEPT !.player = visit_location(@, location_id),
                                      !.locations[location_id] = visit(@)]
                      w2 == advance_time(w1, TravelMinutes)
                  IN  Result(examine_location(w2, location_id).world, "traveled", << >>)

\* the pair (won, ending)
check_win_condition(w) ==
    IF "solve_murder" \in DOMAIN w.quests /\ w.quests["solve_murder"].status = "completed"
    THEN IF "toxicology_report" \in w.player.clues_found
            /\ "fingerprint_match" \in w.player.clues_found
         THEN <<TRUE, "good">>
         ELSE <<TRUE, "neutral">>
    ELSE <<FALSE, "">>

\* An action id is <<"examine_location">>, <<"search">>, <<"talk_", npc_id>>,
\* <<"travel_", location_id>>, or anything else: the prefix tests of the
\* dispatch are tests of its first element.
perform_action(w, action_id) ==
    IF action_id = <<"examine_location">>
    THEN examine_location(w, w.player.current_location)
    ELSE IF Head(action_id) = "talk_"
    THEN talk_to_npc(w, action_id[2])
    ELSE IF action_id = <<"search">>
    THEN search_location(w, w.player.current_location)
    ELSE IF Head(action_id) = "travel_"
    THEN travel_to(w, action_id[2])
    ELSE Result(w, "Unknown action.", << >>)

(***************************************************************************)
(* game_engine/ai_enhanced_engine.py                                       *)
(*                                                                         *)
(* The handlers of AIEnhancedGameEngine.  The narrative input `ai` says    *)
(* whether the engine was built with use_ai and which of the four agent    *)
(* calls raise; the agents (ai_agents/game_master.py, npc_agent.py) only   *)
(* read the arguments they are given.  The item loop, the clue loop and    *)
(* _update_quest_progress are statement for statement those of the simple  *)
(* engine.  The narrative tag is "generated", "static" or a message.       *)
(***************************************************************************)

NarrativeCalls ==
    {"generate_location_description", "generate_dialogue",
     "generate_search_narrative", "generate_travel_narrative"}

\* try: narrative = agent.call(...)  except Exception: fall back
generated(ai, call) == ai.use_ai /\ call \notin ai.raises

ai_examine_location(w, location_id, ai) ==
    LET w1 == [w EXCEPT !.locations[location_id] = visit(@),
                        !.player = visit_location(@, location_id)]
    IN  IF generated(ai, "generate_location_description")
        THEN Result(w1, "generated", << >>)
        ELSE Result(w1, "static", << >>)

ai_talk_to_npc(w, npc_id, ai) ==
    IF npc_id \notin DOMAIN w.npcs
    THEN Result(w, "That person is not here.", << >>)
    ELSE LET w1 == [w EXCEPT !.player = meet_npc(@, npc_id),
                             !.npcs[npc_id] = talk_to(@, None)]
             dialogue == IF generated(ai, "generate_dialogue")
                         THEN "generated" ELSE "static"
             w2 == share_clues(w1, npc_id, w1.npcs[npc_id].will_share_clues)
         IN  Result(w2, dialogue, << >>)

ai_search_location(w, location_id, ai) ==
    LET w1 == [w EXCEPT !.locations[location_id] = search(@)]
        r1 == search_items([world |-> w1, discoveries |-> << >>], location_id,
                           Take(get_available_items(w1.locations[location_id]), SearchCap))
        r2 == search_clues(r1, location_id,
                           Take(get_available_clues(r1.world.locations[location_id]),
                                SearchCap))
        narrative == IF r2.discoveries # << >> /\ generated(ai, "generate_search_narrative")
                     THEN "generated" ELSE "static"
    IN  Result(update_quest_progress(r2.world), narrative, r2.discoveries)

ai_travel_to_aborting(w, location_id, ai) ==
    IF location_id \notin DOMAIN w.locations
    THEN Result(w, "That location doesn't exist.", << >>)
    ELSE LET msg == can_travel_to(w.locations[w.player.current_location], location_id,
                                  w.player, w)
         IN  IF msg # "Can travel"
             THEN Result(w, msg, << >>)
             ELSE IF ai.use_ai /\ ~generated(ai, "generate_travel_narrative")
             THEN Result(w, "static", << >>)
             ELSE LET w1 == [w EXCEPT !.player = visit_location(@, location_id),
                                      !.locations[location_id] = visit(@)]
                      w2 == advance_time(w1, TravelMinutes)
                  IN  Result(ai_examine_location(w2, location_id, ai).world,
                             "generated", << >>)

ai_travel_to(w, location_id, ai) ==
    IF location_id \notin DOMAIN w.locations
    THEN Result(w, "That location doesn't exist.", << >>)
    ELSE LET msg == can_travel_to(w.locations[w.player.current_location], location_id,
                                  w.player, w)
         IN  IF msg # "Can travel"
             THEN Result(w, msg, << >>)
             ELSE LET travel_narrative ==
                          IF generated(ai, "generate_travel_narrative")
                          THEN "generated" ELSE "static"
                      w1 == [w EXCEPT !.player = visit_location(@, location_id),
                                      !.locations[location_id] = visit(@)]
                      w2 == advance_time(w1, TravelMinutes)
                  IN  Result(ai_examine_location(w2, location_id, ai).world,
                             travel_narrative, << >>)

ai_perform_action(w, action_id, ai) ==
    IF action_id = <<"examine_location">>
    THEN ai_examine_location(w, w.player.current_location, ai)
    ELSE IF Head(action_id) = "talk_"
    THEN ai_talk_to_npc(w, action_id[2], ai)
    ELSE IF action_id = <<"search">>
    THEN ai_search_location(w, w.player.current_location, ai)
    ELSE IF Head(action_id) = "travel_"
    THEN ai_travel_to(w, action_id[2], ai)
    ELSE Result(w, "Unknown action.", << >>)

(***************************************************************************)
(* config/sample_mystery.py                                                *)
(***************************************************************************)

create_sample_mystery ==
    LET player == Player(PlayerStats(7, 6, 6, 5, 5), "crime_scene")
        crime_scene ==
            Location(<<"officer_chen", "forensic_tech">>,
                     <<"wine_glass", "phone">>,
                     <<"broken_window", "wine_residue", "phone_messages">>,
                     <<"police_station", "suspects_apartment", "office_building">>)
        police_station ==
            Location(<<"chief_brooks">>, <<"case_file">>, <<"background_check">>,
                     <<"crime_scene", "forensics_lab", "suspects_apartment">>)
        suspects_apartment ==
            Location(<<"suspect_sarah">>, <<"business_contract">>,
                     <<"alibi_note", "partnership_dispute">>,
                     <<"police_station", "crime_scene", "office_building">>)
        office_building ==
            Location(<<"secretary_james">>, <<"company_records">>,
                     <<"financial_records", "threatening_email">>,
                     <<"crime_scene", "suspects_apartment">>)
        forensics_lab ==
            Location(<<"forensic_expert">>, << >>,
                     <<"toxicology_report", "fingerprint_match">>,
                     <<"police_station">>)
        locations ==
            [crime_scene |-> crime_scene,
             police_station |->
                 add_connection(police_station, "forensics_lab",
                     <<LocationRequirement(None, "wine_residue", None, << >>)>>),
             suspects_apartment |-> suspects_apartment,
             office_building |-> office_building,
             forensics_lab |-> forensics_lab]
        npcs ==
            [officer_chen |->
                 NPC("crime_scene", 60, {"broken_window", "initial_timeline"},
                     {"initial_timeline"}),
             chief_brooks |-> NPC("police_station", 50, {}, {}),
             suspect_sarah |->
                 NPC("suspects_apartment", 20,
                     {"partnership_dispute", "alibi_note", "secret_relationship"},
                     {"alibi_note"}),
             secretary_james |->
                 NPC("office_building", 40,
                     {"threatening_email", "financial_records", "visitor_log"},
                     {"threatening_email"}),
             forensic_tech |->
                 NPC("crime_scene", 70, {"wine_residue", "time_of_death"},
                     {"wine_residue", "time_of_death"}),
             forensic_expert |->
                 NPC("forensics_lab", 80,
                     {"toxicology_report", "fingerprint_match", "cause_of_death"},
                     {"toxicology_report", "fingerprint_match", "cause_of_death"})]
        items ==
            [wine_glass |-> Item(TRUE), phone |-> Item(TRUE), case_file |-> Item(FALSE),
             business_contract |-> Item(FALSE), company_records |-> Item(FALSE)]
        clues ==
            [broken_window |-> Clue(None, 0),
             wine_residue |-> Clue("investigation", 5),
             phone_messages |-> Clue(None, 0),
             alibi_note |-> Clue(None, 0),
             partnership_dispute |-> Clue(None, 0),
             background_check |-> Clue(None, 0),
             financial_records |-> Clue("investigation", 6),
             threatening_email |-> Clue(None, 0),
             toxicology_report |-> Clue(None, 0),
             fingerprint_match |-> Clue(None, 0)]
        obj1 == QuestObjective("go_to_location", "crime_scene", 1, << >>)
        obj2 == QuestObjective("collect_item", None, 3, <<"examine_crime_scene">>)
        obj3 == QuestObjective("talk_to_npc", "suspect_sarah", 1, <<"examine_crime_scene">>)
        obj4 == QuestObjective("find_clue", "toxicology_report", 1, <<"collect_evidence">>)
        obj5 == QuestObjective("confront_npc", "suspect_sarah", 1,
                               <<"get_forensics", "interview_suspect">>)
        solve_murder ==
            add_objective(add_objective(add_objective(add_objective(add_objective(
                Quest("active"),
                "examine_crime_scene", obj1), "collect_evidence", obj2),
                "interview_suspect", obj3), "get_forensics", obj4),
                "final_deduction", obj5)
    IN  WorldState(player, locations, npcs, items, clues, [solve_murder |-> solve_murder])

(***************************************************************************)
(* A session: the shipped world, and one action per call of                *)
(* perform_action.  The counters the handlers increment without limit      *)
(* (search counts, talk counts, the clock) stop the session after          *)
(* MaxSteps counted calls.                                                 *)
(***************************************************************************)

MaxSteps == 6

RECURSIVE SumOver(_, _)
SumOver(f, S) ==
    IF S = {} THEN 0
    ELSE LET x == CHOOSE y \in S : TRUE IN f[x] + SumOver(f, S \ {x})

\* a session starts on StartDay, at StartTime or, late in the evening, at
\* LateStart; the clock tells which, the sessions being shorter than the
\* time between the two
LateStart == 1425

ClockStart(w) ==
    IF w.current_day = StartDay /\ w.current_time < LateStart
    THEN StartTime
    ELSE LateStart

\* searches, talks and travels made so far
ActionCount(w) ==
    SumOver([l \in DOMAIN w.locations |-> w.locations[l].search_count], DOMAIN w.locations)
    + SumOver([n \in DOMAIN w.npcs |-> w.npcs[n].memory.times_talked], DOMAIN w.npcs)
    + ((w.current_day - StartDay) * MinutesPerDay + w.current_time - ClockStart(w))
          \div TravelMinutes

Init == world = create_sample_mystery

\* one call of perform_action(action_id)
Perform(action_id) ==
    /\ ActionCount(perform_action(world, action_id).world) <= MaxSteps
    /\ world' = perform_action(world, action_id).world

Examine ==
    /\ world.player.current_location \in DOMAIN world.locations
    /\ Perform(<<"examine_location">>)

Talk ==
    \E npc_id \in DOMAIN world.npcs \cup {"nobody"} : Perform(<<"talk_", npc_id>>)

Search ==
    /\ world.player.current_location \in DOMAIN world.locations
    /\ Perform(<<"search">>)

Travel ==
    \E location_id \in DOMAIN world.locations \cup {"nowhere"} :
        Perform(<<"travel_", location_id>>)

Unknown ==
    \E action_id \in {<<"dance">>, <<"examine">>} : Perform(action_id)

Next == Examine \/ Talk \/ Search \/ Travel \/ Unknown

Spec == Init /\ [][Next]_vars

(***************************************************************************)
(* A session of the same engine on a second world, assembled from the      *)
(* model classes the way the unit tests assemble theirs.  It has what the  *)
(* shipped world lacks: a location with more items and clues than one      *)
(* search takes, a location whose two clues require investigation 5 and 6, *)
(* a clue whose skill the player does not have, an edge gated on an item,  *)
(* a quest whose objectives enter <- arm <- seal <- enter form a cycle,    *)
(* and a second quest that need not be active.  The player's               *)
(* investigation skill and the second quest's status are inputs.           *)
(***************************************************************************)

MinSkill == 4

MaxSkill == 7

ScenarioWorld(investigation, side_status) ==
    LET player == Player(PlayerStats(investigation, 5, 5, 5, 5), "crime_scene")
        crime_scene ==
            add_connection(
                Location(<<"guard">>, <<"knife", "note", "keycard">>,
                         <<"fiber", "residue">>, <<"room">>),
                "vault", <<LocationRequirement("keycard", None, None, << >>)>>)
        room ==
            Location(<< >>, << >>, <<"bloodstain", "footprint", "smudge">>,
                     <<"crime_scene">>)
        vault == Location(<< >>, << >>, <<"ledger">>, <<"crime_scene">>)
        npcs == [guard |-> NPC("crime_scene", 20, {"ledger"}, {"ledger"})]
        items == [knife |-> Item(FALSE), note |-> Item(FALSE), keycard |-> Item(FALSE)]
        clues ==
            [fiber |-> Clue("investigation", 5),
             residue |-> Clue("investigation", 6),
             bloodstain |-> Clue(None, 0),
             footprint |-> Clue("Perception", 6),
             smudge |-> Clue(None, 0),
             ledger |-> Clue(None, 0)]
        case ==
            add_objective(add_objective(add_objective(add_objective(add_objective(
            add_objective(add_objective(add_objective(
                Quest("active"),
                "visit_room", QuestObjective("go_to_location", "room", 1, << >>)),
                "gather", QuestObjective("collect_item", None, 3, << >>)),
                "get_key", QuestObjective("collect_item", "keycard", 1, <<"visit_room">>)),
                "trace", QuestObjective("find_clue", "residue", 1, <<"gather">>)),
                "question", QuestObjective("talk_to_npc", "guard", 1, <<"trace">>)),
                "enter", QuestObjective("go_to_location", "crime_scene", 1, <<"seal">>)),
                "arm", QuestObjective("collect_item", "knife", 1, <<"enter">>)),
                "seal", QuestObjective("find_clue", "bloodstain", 1, <<"arm">>))
        side ==
            add_objective(Quest(side_status),
                "look", QuestObjective("go_to_location", "crime_scene", 1, << >>))
    IN  WorldState(player,
                   [crime_scene |-> crime_scene, room |-> room, vault |-> vault],
                   npcs, items, clues, [case |-> case, side |-> side])

InitScenario ==
    \E investigation \in MinSkill..MaxSkill,
       side_status \in {"locked", "available", "active"} :
        world = ScenarioWorld(investigation, side_status)

SpecScenario == InitScenario /\ [][Next]_vars

(***************************************************************************)
(* A session of the same engine on a third world, in which entries that a  *)
(* search cannot collect precede entries that it can: the location         *)
(* "archive" lists the items crate and shelf, which the item registry does *)
(* not hold, before the registered badge, and the clues cipher and code,   *)
(* which require investigation MaxSkill and MaxSkill - 1, before receipt,  *)
(* which requires nothing.  The player's investigation skill is an input.  *)
(***************************************************************************)

ArchiveWorld(investigation) ==
    LET player == Player(PlayerStats(investigation, 5, 5, 5, 5), "archive")
        archive ==
            Location(<<"clerk">>, <<"crate", "shelf", "badge">>,
                     <<"cipher", "code", "receipt">>, <<"lobby">>)
        lobby == Location(<< >>, <<"umbrella">>, << >>, <<"archive">>)
        npcs == [clerk |-> NPC("archive", 50, {}, {})]
        items == [badge |-> Item(FALSE), umbrella |-> Item(FALSE)]
        clues ==
            [cipher |-> Clue("investigation", MaxSkill),
             code |-> Clue("investigation", MaxSkill - 1),
             receipt |-> Clue(None, 0)]
    IN  WorldState(player, [archive |-> archive, lobby |-> lobby],
                   npcs, items, clues, EmptyDict)

InitArchive ==
    \E investigation \in MinSkill..MaxSkill : world = ArchiveWorld(investigation)

SpecArchive == InitArchive /\ [][Next]_vars

(***************************************************************************)
(* A session on the second world whose clock starts at StartTime or, as    *)
(* tests/test_world.py sets it, late in the evening, so that the travels   *)
(* of the session cross midnight.                                          *)
(***************************************************************************)

InitNight ==
    \E t \in {StartTime, LateStart} :
        world = [ScenarioWorld(MaxSkill, "active") EXCEPT !.current_time = t]

SpecNight == InitNight /\ [][Next]_vars

(***************************************************************************)
(* A session of the AI-enhanced engine on the second world: every call of  *)
(* perform_action is made with narration disabled, or enabled with any     *)
(* set of the agent calls raising.                                         *)
(***************************************************************************)

NarrativeInputs ==
    {[use_ai |-> FALSE, raises |-> {}]}
        \cup {[use_ai |-> TRUE, raises |-> calls] : calls \in SUBSET NarrativeCalls}

AIPerform(action_id) ==
    \E ai \in NarrativeInputs :
        /\ ActionCount(ai_perform_action(world, action_id, ai).world) <= MaxSteps
        /\ world' = ai_perform_action(world, action_id, ai).world

AIExamine ==
    /\ world.player.current_location \in DOMAIN world.locations
    /\ AIPerform(<<"examine_location">>)

AITalk ==
    \E npc_id \in DOMAIN world.npcs \cup {"nobody"} : AIPerform(<<"talk_", npc_id>>)

AISearch ==
    /\ world.player.current_location \in DOMAIN world.locations
    /\ AIPerform(<<"search">>)

AITravel ==
    \E location_id \in DOMAIN world.locations \cup {"nowhere"} :
        AIPerform(<<"travel_", location_id>>)

AIUnknown ==
    \E action_id \in {<<"dance">>, <<"examine">>} : AIPerform(action_id)

NextAI == AIExamine \/ AITalk \/ AISearch \/ AITravel \/ AIUnknown

SpecAI == InitScenario /\ [][NextAI]_vars

(***************************************************************************)
(* The NPC class on its own, as tests/test_npc.py drives it: one NPC,      *)
(* constructed with any trust level of the documented range, and one       *)
(* action per public method.                                               *)
(***************************************************************************)

MaxDelta == 250

MaxTalk == 2

Deltas == {-MaxDelta, -100, -35, -1, 0, 1, 35, 100, MaxDelta}

Topics == {None, "alibi"}

ClueInputs == {"secret_location", "witness_identity", "fingerprint"}

EmptyWorld ==
    WorldState(Player(PlayerStats(5, 5, 5, 5, 5), "crime_scene"),
               EmptyDict, EmptyDict, EmptyDict, EmptyDict, EmptyDict)

InitNPC ==
    \E trust_level \in 0..100 :
        world = [EmptyWorld EXCEPT !.npcs =
                    [informant |->
                        NPC("unknown", trust_level,
                            {"secret_location", "witness_identity"},
                            {"secret_location", "witness_identity"})]]

ModifyTrust ==
    \E npc_id \in DOMAIN world.npcs, amount \in Deltas :
        world' = [world EXCEPT !.npcs[npc_id] = modify_trust(@, amount)]

TalkTo ==
    \E npc_id \in DOMAIN world.npcs, topic \in Topics :
        /\ world.npcs[npc_id].memory.times_talked < MaxTalk
        /\ world' = [world EXCEPT !.npcs[npc_id] = talk_to(@, topic)]

ShowClue ==
    \E npc_id \in DOMAIN world.npcs, clue_id \in ClueInputs :
        world' = [world EXCEPT !.npcs[npc_id] = show_clue(@, clue_id)]

ShareClue ==
    \E npc_id \in DOMAIN world.npcs, clue_id \in ClueInputs :
        world' = [world EXCEPT !.npcs[npc_id] = share_clue(@, clue_id).npc]

MoveTo ==
    \E npc_id \in DOMAIN world.npcs :
        world' = [world EXCEPT !.npcs[npc_id] = move_to(@, "downtown")]

NextNPC == ModifyTrust \/ TalkTo \/ ShowClue \/ ShareClue \/ MoveTo

SpecNPC == InitNPC /\ [][NextNPC]_vars

(***************************************************************************)
(* The Quest and QuestObjective classes on their own, as                   *)
(* tests/test_quest.py drives them: one quest, built with add_objective    *)
(* from the chain obj1 <- obj2 <- obj3, and one action per public method.  *)
(***************************************************************************)

MaxAmount == 2

ObjectivePool ==
    [obj1 |-> QuestObjective("go_to_location", "crime_scene", 1, << >>),
     obj2 |-> QuestObjective("collect_item", None, 2, <<"obj1">>),
     obj3 |-> QuestObjective("talk_to_npc", "suspect_sarah", 1, <<"obj2">>)]

ObjectiveInputs == DOMAIN ObjectivePool \cup {"missing"}

InitQuest ==
    \E status \in {"locked", "available", "active"} :
        world = [EmptyWorld EXCEPT !.quests = [test |-> Quest(status)]]

AddObjective ==
    \E quest_id \in DOMAIN world.quests, id \in DOMAIN ObjectivePool :
        world' = [world EXCEPT !.quests[quest_id] = add_objective(@, id, ObjectivePool[id])]

AdvanceProgress ==
    \E quest_id \in DOMAIN world.quests, amount \in 1..MaxAmount :
        \E id \in DOMAIN world.quests[quest_id].objectives :
            world' = [world EXCEPT !.quests[quest_id].objectives[id] =
                                       advance_progress(@, amount).obj]

CompleteObjective ==
    \E quest_id \in DOMAIN world.quests, id \in ObjectiveInputs :
        world' = [world EXCEPT !.quests[quest_id] = complete_objective(@, id).quest]

Start ==
    \E quest_id \in DOMAIN world.quests :
        world' = [world EXCEPT !.quests[quest_id] = start(@)]

Complete ==
    \E quest_id \in DOMAIN world.quests :
        world' = [world EXCEPT !.quests[quest_id] = complete(@)]

Fail ==
    \E quest_id \in DOMAIN world.quests :
        world' = [world EXCEPT !.quests[quest_id] = fail(@)]

NextQuest ==
    AddObjective \/ AdvanceProgress \/ CompleteObjective \/ Start \/ Complete \/ Fail

SpecQuest == InitQuest /\ [][NextQuest]_vars

(***************************************************************************)
(* The Location and LocationRequirement classes on their own, as           *)
(* tests/test_location.py drives them: a location "entrance" with an open  *)
(* edge to "downtown" and an edge to "vault" that carries a requirement,   *)
(* any combination of the four conditions; the player and the character    *)
(* the requirement names change through their own methods.                 *)
(***************************************************************************)

GateTrust == 50

RequirementInputs ==
    {LocationRequirement(item, clue, quest, trust) :
        item \in {None, "keycard"}, clue \in {None, "address_clue"},
        quest \in {None, "intro_quest"},
        trust \in {<< >>, <<"guard", GateTrust>>, <<"ghost", 0>>}}

TravelInputs == {"downtown", "vault", "unknown"}

InitLocation ==
    \E req \in RequirementInputs :
        world = [EmptyWorld EXCEPT
                    !.player.current_location = "entrance",
                    !.locations =
                        [entrance |->
                            add_connection(
                                add_connection(Location(<< >>, << >>, << >>, << >>),
                                               "downtown", << >>),
                                "vault", <<req>>)],
                    !.npcs = [guard |-> NPC("entrance", GateTrust - 1, {}, {})]]

PlayerAddItem ==
    \E item_id \in {"keycard", "knife"} :
        world' = [world EXCEPT !.player = add_item(@, item_id)]

PlayerAddClue ==
    world' = [world EXCEPT !.player = add_clue(@, "address_clue")]

PlayerCompleteQuest ==
    world' = [world EXCEPT !.player = complete_quest(@, "intro_quest")]

NextLocation == PlayerAddItem \/ PlayerAddClue \/ PlayerCompleteQuest \/ ModifyTrust

SpecLocation == InitLocation /\ [][NextLocation]_vars

(***************************************************************************)
(* The item and clue bookkeeping of one Location on its own, as            *)
(* tests/test_location.py drives it: a location "room" listing the items   *)
(* knife, note and the clues bloodstain, footprint (or fewer), on which    *)
(* take_item, find_clue, visit and search are called with listed and       *)
(* unlisted identifiers.                                                   *)
(***************************************************************************)

MaxSearch == 2

ItemLists == {<<"knife", "note">>, <<"knife">>, << >>}

ClueLists == {<<"bloodstain", "footprint">>, <<"footprint">>, << >>}

RoomItemInputs == {"knife", "note", "keycard"}

RoomClueInputs == {"bloodstain", "footprint", "ledger"}

InitRoom ==
    \E items \in ItemLists, clues \in ClueLists :
        world = [EmptyWorld EXCEPT
                    !.player.current_location = "room",
                    !.locations = [room |-> Location(<< >>, items, clues, << >>)]]

TakeItem ==
    \E item_id \in RoomItemInputs :
        world' = [world EXCEPT !.locations.room = take_item(@, item_id).location]

FindClue ==
    \E clue_id \in RoomClueInputs :
        world' = [world EXCEPT !.locations.room = find_clue(@, clue_id).location]

Visit ==
    world' = [world EXCEPT !.locations.room = visit(@)]

SearchRoom ==
    /\ world.locations.room.search_count < MaxSearch
    /\ world' = [world EXCEPT !.locations.room = search(@)]

NextRoom == TakeItem \/ FindClue \/ Visit \/ SearchRoom

SpecRoom == InitRoom /\ [][NextRoom]_vars

(***************************************************************************)
(* The world clock on its own, as tests/test_world.py drives it: a world   *)
(* whose current_time is set to any minute of the day, on which            *)
(* advance_time is called with any number of minutes below a day.          *)
(***************************************************************************)

MaxDay == 2

InitClock ==
    \E t \in 0 .. MinutesPerDay - 1 :
        world = [EmptyWorld EXCEPT !.current_time = t]

AdvanceTime ==
    \E minutes \in 0 .. MinutesPerDay - 1 :
        /\ advance_time(world, minutes).current_day <= MaxDay
        /\ world' = advance_time(world, minutes)

NextClock == AdvanceTime

SpecClock == InitClock /\ [][NextClock]_vars

(***************************************************************************)
(* The unlock requirements of a quest, as tests/test_quest.py drives them: *)
(* a quest "advanced_quest" requiring any of two quests, any of two clues  *)
(* and possibly a location, and a player who completes quests, collects    *)
(* clues and moves.                                                        *)
(***************************************************************************)

QuestLists == {<< >>, <<"tutorial_quest">>, <<"tutorial_quest", "bonus_quest">>}

ClueListInputs == {<< >>, <<"important_clue">>, <<"important_clue", "second_clue">>}

LocationInputs == {None, "police_station"}

InitUnlock ==
    \E quests \in QuestLists, clues \in ClueListInputs, location_id \in LocationInputs :
        world = [EmptyWorld EXCEPT
                    !.quests =
                        [advanced_quest |->
                            [Quest("locked") EXCEPT !.requires_quests = quests,
                                                    !.requires_clues = clues,
                                                    !.requires_location = location_id]]]

UnlockCompleteQuest ==
    \E quest_id \in {"tutorial_quest", "bonus_quest"} :
        world' = [world EXCEPT !.player = complete_quest(@, quest_id)]

UnlockAddClue ==
    \E clue_id \in {"important_clue", "second_clue"} :
        world' = [world EXCEPT !.player = add_clue(@, clue_id)]

UnlockVisitLocation ==
    \E location_id \in {"police_station", "crime_scene"} :
        world' = [world EXCEPT !.player = visit_location(@, location_id)]

NextUnlock == UnlockCompleteQuest \/ UnlockAddClue \/ UnlockVisitLocation

SpecUnlock == InitUnlock /\ [][NextUnlock]_vars

(***************************************************************************)
(* Properties                                                              *)
(***************************************************************************)

Clamp(t) == IF t < 0 THEN 0 ELSE IF t > 100 THEN 100 ELSE t

TierOf(trust) ==
    CASE trust >= 80 -> "friend"
      [] trust >= 50 /\ trust < 80 -> "acquaintance"
      [] trust >= 20 /\ trust < 50 -> "stranger"
      [] trust < 20 -> "enemy"

MoodOf(trust) ==
    CASE trust >= 70 -> "friendly"
      [] trust >= 40 /\ trust < 70 -> "neutral"
      [] trust >= 20 /\ trust < 40 -> "suspicious"
      [] trust < 20 -> "hostile"

\* C1: modify_trust saturates: from every trust in [0,100] and for every
\* delta, also one beyond 100 in magnitude, the new trust is trust + delta
\* clamped to [0,100], and the trust of every character stays in [0,100].
C1_TrustSaturates ==
    \A n \in DOMAIN world.npcs :
        /\ world.npcs[n].trust_level \in 0..100
        /\ \A amount \in Deltas :
               modify_trust(world.npcs[n], amount).trust_level
                   = Clamp(world.npcs[n].trust_level + amount)

\* a character driven to the upper end by modify_trust
C1_Witness ==
    \E n \in DOMAIN world.npcs :
        /\ world.npcs[n].trust_level = 100
        /\ world.npcs[n].relationship_status = "friend"

\* C2: in every state of a session, the initial one included, each
\* character's mood and relationship tier are the step functions of its
\* trust.
C2_MoodAndTierFollowTrust ==
    \A n \in DOMAIN world.npcs :
        /\ world.npcs[n].mood = MoodOf(world.npcs[n].trust_level)
        /\ world.npcs[n].relationship_status = TierOf(world.npcs[n].trust_level)

\* C3: share_clue succeeds iff the clue is in the disclosable set and trust
\* >= 30; a success removes the clue, so that a second call fails; a
\* failure leaves the character as it was.
C3_DiscloseIffTrustedAndDisclosable ==
    \A n \in DOMAIN world.npcs, c \in ClueInputs :
        LET npc == world.npcs[n]
            r == share_clue(npc, c)
        IN  /\ r.ret <=> (c \in npc.will_share_clues /\ npc.trust_level >= 30)
            /\ r.ret => /\ r.npc.will_share_clues = npc.will_share_clues \ {c}
                        /\ ~share_clue(r.npc, c).ret
            /\ ~r.ret => r.npc = npc

\* a character that has disclosed one of its two clues
C3_Witness ==
    \E n \in DOMAIN world.npcs :
        /\ world.npcs[n].will_share_clues = {"witness_identity"}
        /\ world.npcs[n].trust_level >= 30

TalkedTo(n) ==
    world'.npcs[n].memory.times_talked # world.npcs[n].memory.times_talked

\* C4: one talk with a character of trust >= 30 moves every clue of its
\* disclosable set into the player's collected clues and leaves the set
\* empty (in the shipped world: officer_chen and initial_timeline).
C4_TalkMovesEveryDisclosableClue ==
    [][\A n \in DOMAIN world.npcs :
          (TalkedTo(n) /\ world.npcs[n].trust_level >= 30)
              => /\ world'.npcs[n].will_share_clues = {}
                 /\ world.npcs[n].will_share_clues \subseteq world'.player.clues_found]_vars

\* C5: no action adds a clue to a character's disclosable set.
C5_DisclosableSetOnlyShrinks ==
    [][\A n \in DOMAIN world.npcs :
          world'.npcs[n].will_share_clues \subseteq world.npcs[n].will_share_clues]_vars

\* secretary_james has disclosed threatening_email
C5_Witness ==
    /\ "secretary_james" \in DOMAIN world.npcs
    /\ world.npcs["secretary_james"].will_share_clues = {}
    /\ "threatening_email" \in world.player.clues_found

ChainWithOnlyFirstCompleted(quest) ==
    /\ quest.order = <<"obj1", "obj2", "obj3">>
    /\ quest.completed_objectives = {"obj1"}
    /\ quest.objectives["obj1"].completed
    /\ ~quest.objectives["obj2"].completed
    /\ ~quest.objectives["obj3"].completed

\* C6: get_available_objectives returns exactly the objectives that are not
\* completed and whose prerequisites are all in the quest's completed set;
\* in the chain obj1 <- obj2 <- obj3 with only obj1 completed it returns
\* [obj2].
C6_AvailableIsFrontier ==
    \A q \in DOMAIN world.quests :
        LET quest == world.quests[q]
            avail == get_available_objectives(quest)
        IN  /\ Range(avail) \subseteq DOMAIN quest.objectives
            /\ \A id \in DOMAIN quest.objectives :
                   InSeq(id, avail)
                       <=> /\ ~quest.objectives[id].completed
                           /\ Range(quest.objectives[id].requires_objectives)
                                  \subseteq quest.completed_objectives
            /\ ChainWithOnlyFirstCompleted(quest) => avail = <<"obj2">>

\* the chain, with obj1 completed through complete_objective
C6_Witness ==
    \E q \in DOMAIN world.quests :
        /\ ChainWithOnlyFirstCompleted(world.quests[q])
        /\ world.quests[q].objectives["obj1"].progress = 0

AllCompleted(quest) ==
    \A o \in DOMAIN quest.objectives : quest.objectives[o].completed

\* C7: a quest's status is completed exactly from the call that completes
\* its last remaining objective: never while an objective is not completed,
\* and always right after the last one is completed.
C7_CompletedExactlyOnLastObjective ==
    [][\A q \in DOMAIN world.quests :
          /\ ~AllCompleted(world'.quests[q]) => world'.quests[q].status # "completed"
          /\ (AllCompleted(world'.quests[q]) /\ ~AllCompleted(world.quests[q]))
                 => world'.quests[q].status = "completed"]_vars

\* C8: a quest whose status is completed stays completed under every later
\* operation.
C8_CompletedIsTerminal ==
    [][\A q \in DOMAIN world.quests :
          world.quests[q].status = "completed"
              => world'.quests[q].status = "completed"]_vars

\* C9: every objective whose completed flag is true has progress >= its
\* required quantity.
C9_CompletedImpliesProgress ==
    \A q \in DOMAIN world.quests :
        \A o \in DOMAIN world.quests[q].objectives :
            world.quests[q].objectives[o].completed
                => world.quests[q].objectives[o].progress
                       >= world.quests[q].objectives[o].quantity

NoPendingTrigger(w) ==
    \A q \in get_active_quests(w) :
        \A id \in Range(get_available_objectives(w.quests[q])) :
            ~trigger(w.quests[q].objectives[id], w.player)

\* C10: at the end of every examine, talk, search or travel action no
\* objective in the frontier of an active quest has its trigger holding:
\* the triggers were evaluated and the objective completed.
C10_TriggersEvaluatedAfterEveryAction ==
    [][NoPendingTrigger(world')]_vars

\* the type-specific trigger of an objective, in the player's state
TriggerHolds(obj, player) ==
    CASE obj.objective_type = "go_to_location" ->
             player.current_location = obj.target_id
      [] obj.objective_type = "collect_item" ->
             IF obj.target_id # None
             THEN \E i \in DOMAIN player.inventory : player.inventory[i] = obj.target_id
             ELSE Len(player.inventory) >= obj.quantity
      [] obj.objective_type = "find_clue" -> obj.target_id \in player.clues_found
      [] obj.objective_type = "talk_to_npc" -> obj.target_id \in player.npcs_met
      [] OTHER -> FALSE

CompletedBy(q, o) ==
    /\ ~world.quests[q].objectives[o].completed
    /\ world'.quests[q].objectives[o].completed

\* C11: an engine action completes an objective only when the objective's
\* type-specific trigger holds in the state the action leaves, and only for
\* a quest that was active.
C11_NoPhantomCompletion ==
    [][\A q \in DOMAIN world.quests :
          \A o \in DOMAIN world.quests[q].objectives :
              CompletedBy(q, o)
                  => /\ TriggerHolds(world'.quests[q].objectives[o], world'.player)
                     /\ world.quests[q].status = "active"]_vars

\* objectives of three types have been completed, the untargeted and the
\* targeted collect-item among them, while the objective of the quest that
\* is not active has its trigger holding and is not completed
C11_Witness ==
    /\ {"case", "side"} \subseteq DOMAIN world.quests
    /\ {"gather", "get_key", "trace", "visit_room"}
           \subseteq world.quests["case"].completed_objectives
    /\ world.quests["side"].status = "available"
    /\ world.player.current_location = "crime_scene"
    /\ ~world.quests["side"].objectives["look"].completed

\* C12: a quest's completed set is closed under prerequisites: with every
\* objective in it are all of that objective's prerequisites.
C12_CompletedSetClosedUnderPrerequisites ==
    \A q \in DOMAIN world.quests :
        \A o \in world.quests[q].completed_objectives :
            \A i \in DOMAIN world.quests[q].objectives[o].requires_objectives :
                world.quests[q].objectives[o].requires_objectives[i]
                    \in world.quests[q].completed_objectives

\* the shipped quest with an objective and its prerequisite both completed
C12_Witness ==
    /\ "solve_murder" \in DOMAIN world.quests
    /\ {"collect_evidence", "interview_suspect"}
           \subseteq world.quests["solve_murder"].completed_objectives

\* the objectives that o requires, directly or through other objectives
RECURSIVE RequiredFrom(_, _, _)
RequiredFrom(quest, todo, seen) ==
    IF todo = {} THEN seen
    ELSE LET o == CHOOSE x \in todo : TRUE
             next == IF o \in DOMAIN quest.objectives
                     THEN {quest.objectives[o].requires_objectives[i] :
                              i \in DOMAIN quest.objectives[o].requires_objectives}
                     ELSE {}
         IN  RequiredFrom(quest, (todo \cup next) \ (seen \cup {o}), seen \cup next)

OnCycle(quest, o) == o \in RequiredFrom(quest, {o}, {})

\* C13: no member of a prerequisite cycle is ever in the frontier or
\* completed, and a quest that has such a cycle never has status completed.
C13_CycleMembersStayLocked ==
    \A q \in DOMAIN world.quests :
        LET quest == world.quests[q]
        IN  /\ \A o \in DOMAIN quest.objectives :
                   OnCycle(quest, o)
                       => /\ ~InSeq(o, get_available_objectives(quest))
                          /\ ~quest.objectives[o].completed
                          /\ o \notin quest.completed_objectives
            /\ (\E o \in DOMAIN quest.objectives : OnCycle(quest, o))
                   => quest.status # "completed"

\* the triggers of all three members of the cycle hold (at crime_scene, with
\* the knife and the bloodstain) and the location was searched in that
\* state, while the objectives outside the cycle were completed
C13_Witness ==
    /\ "case" \in DOMAIN world.quests
    /\ OnCycle(world.quests["case"], "enter")
    /\ OnCycle(world.quests["case"], "arm")
    /\ OnCycle(world.quests["case"], "seal")
    /\ ~OnCycle(world.quests["case"], "visit_room")
    /\ world.player.current_location = "crime_scene"
    /\ InSeq("knife", world.player.inventory)
    /\ "bloodstain" \in world.player.clues_found
    /\ world.locations["crime_scene"].search_count >= 2
    /\ {"visit_room", "gather"} \subseteq world.quests["case"].completed_objectives

\* every condition present in an unlock predicate holds
ConditionsHold(req, w) ==
    /\ req.requires_item # None
           => \E i \in DOMAIN w.player.inventory : w.player.inventory[i] = req.requires_item
    /\ req.requires_clue # None => req.requires_clue \in w.player.clues_found
    /\ req.requires_quest # None => req.requires_quest \in w.player.completed_quests
    /\ req.requires_npc_trust # << >>
           => /\ req.requires_npc_trust[1] \in DOMAIN w.npcs
              /\ w.npcs[req.requires_npc_trust[1]].trust_level >= req.requires_npc_trust[2]

\* travel from the location `from` to `to` is allowed
TravelAllowed(w, from, to) ==
    /\ \E i \in DOMAIN w.locations[from].connections :
           w.locations[from].connections[i] = to
    /\ to \in DOMAIN w.locations[from].connection_requirements
           => ConditionsHold(w.locations[from].connection_requirements[to], w)

\* C14: can_travel_to allows travel iff the target is a neighbor and the
\* edge has no unlock predicate or every condition present in it holds
\* (item, clue, quest, character trust, combined by AND; a trust condition
\* on an unregistered character fails).
C14_TravelAllowedIffNeighborAndPredicate ==
    \A from \in DOMAIN world.locations, to \in TravelInputs :
        (can_travel_to(world.locations[from], to, world.player, world) = "Can travel")
            <=> TravelAllowed(world, from, to)

\* an edge whose predicate has all four conditions, all of them holding
C14_Witness ==
    /\ "entrance" \in DOMAIN world.locations
    /\ "vault" \in DOMAIN world.locations["entrance"].connection_requirements
    /\ world.locations["entrance"].connection_requirements["vault"]
           = LocationRequirement("keycard", "address_clue", "intro_quest",
                                 <<"guard", GateTrust>>)
    /\ TravelAllowed(world, "entrance", "vault")
    /\ can_travel_to(world.locations["entrance"], "vault", world.player, world)
           = "Can travel"

\* the number of entries of the action list with this kind and target
NumActions(acts, type, target) ==
    Cardinality({i \in DOMAIN acts : acts[i].type = type /\ acts[i].target = target})

\* the number of entries of the action list with this kind
NumOfType(acts, type) == Cardinality({i \in DOMAIN acts : acts[i].type = type})

Undiscovered(location) ==
    \/ \E i \in DOMAIN location.items_available :
           location.items_available[i] \notin location.items_taken
    \/ \E i \in DOMAIN location.clues_available :
           location.clues_available[i] \notin location.clues_found

\* C15: get_available_actions lists exactly one examine action, one talk
\* action for each character at the player's location and none for any
\* other, one search action iff an item or clue is still undiscovered
\* there, and one travel action for each neighbor to which travel is
\* allowed and none for any other.
C15_ActionListIsExact ==
    LET acts == get_available_actions(world)
        here == world.player.current_location
        neighbors == Range(world.locations[here].connections)
    IN  /\ NumOfType(acts, "examine") = 1
        /\ \A n \in DOMAIN world.npcs :
               NumActions(acts, "talk", n)
                   = IF world.npcs[n].current_location = here THEN 1 ELSE 0
        /\ NumOfType(acts, "talk")
               = Cardinality({n \in DOMAIN world.npcs :
                                 world.npcs[n].current_location = here})
        /\ NumOfType(acts, "search")
               = IF Undiscovered(world.locations[here]) THEN 1 ELSE 0
        /\ \A to \in neighbors :
               NumActions(acts, "travel", to)
                   = IF TravelAllowed(world, here, to) THEN 1 ELSE 0
        /\ NumOfType(acts, "travel")
               = Cardinality({to \in neighbors : TravelAllowed(world, here, to)})
        /\ \A i \in DOMAIN acts : acts[i].type \in {"examine", "talk", "search", "travel"}

\* at office_building after its search: nothing is left undiscovered, so
\* the list has no search action, and it has the talk action of the one
\* character there and the two travel actions
C15_Witness ==
    /\ world.player.current_location = "office_building"
    /\ ~Undiscovered(world.locations["office_building"])
    /\ NumOfType(get_available_actions(world), "search") = 0
    /\ NumActions(get_available_actions(world), "talk", "secretary_james") = 1
    /\ Len(get_available_actions(world)) = 4

\* C16: with the player at police_station, the action list has a travel
\* action to forensics_lab iff wine_residue is in the player's collected
\* clues.
C16_ForensicsLabGatedOnWineResidue ==
    world.player.current_location = "police_station"
        => (NumActions(get_available_actions(world), "travel", "forensics_lab") >= 1
                <=> "wine_residue" \in world.player.clues_found)

\* at police_station holding wine_residue, with the travel action listed
C16_Witness ==
    /\ world.player.current_location = "police_station"
    /\ "wine_residue" \in world.player.clues_found
    /\ NumActions(get_available_actions(world), "travel", "forensics_lab") = 1

\* C17: a travel action that is declined, the target not being a neighbor
\* or its unlock predicate not holding, changes nothing: player, locations,
\* clock, day and quests are as before.
C17_DeclinedTravelChangesNothing ==
    \A to \in DOMAIN world.locations \cup {"nowhere"} :
        ~TravelAllowed(world, world.player.current_location, to)
            => perform_action(world, <<"travel_", to>>).world = world

\* at police_station, after a travel, without wine_residue: the travel to
\* the neighbor forensics_lab is declined on its predicate, and the travel
\* to office_building for not being a neighbor
C17_Witness ==
    /\ world.player.current_location = "police_station"
    /\ "wine_residue" \notin world.player.clues_found
    /\ world.current_time > StartTime
    /\ perform_action(world, <<"travel_", "forensics_lab">>).narrative
           = "Requirements not met"
    /\ perform_action(world, <<"travel_", "office_building">>).narrative
           = "Location not connected"

\* C18: perform_action with an id of no known kind, with a travel id of an
\* unregistered location or with a talk id of an unregistered character
\* returns its message and leaves the world as it was.
C18_InvalidReferenceChangesNothing ==
    /\ \A action_id \in {<<"dance">>, <<"examine">>} :
           perform_action(world, action_id) = Result(world, "Unknown action.", << >>)
    /\ "nowhere" \notin DOMAIN world.locations
           => perform_action(world, <<"travel_", "nowhere">>)
                  = Result(world, "That location doesn't exist.", << >>)
    /\ "nobody" \notin DOMAIN world.npcs
           => perform_action(world, <<"talk_", "nobody">>)
                  = Result(world, "That person is not here.", << >>)

\* a state in the middle of a session in which the three invalid requests
\* get their three messages
C18_Witness ==
    /\ world.current_time > StartTime
    /\ world.player.npcs_met # {}
    /\ perform_action(world, <<"dance">>).narrative = "Unknown action."
    /\ perform_action(world, <<"travel_", "nowhere">>).narrative
           = "That location doesn't exist."
    /\ perform_action(world, <<"talk_", "nobody">>).narrative
           = "That person is not here."

\* the entries of a location's list that are not yet in its taken/found set,
\* in list order
NotYet(list, done) ==
    LET Test(x) == x \notin done IN SelectSeq(list, Test)

FirstTwo(list) == IF Len(list) <= 2 THEN list ELSE <<list[1], list[2]>>

Searched(l) ==
    world'.locations[l].search_count # world.locations[l].search_count

\* C19: a search takes at most two items and finds at most two clues, all
\* of them among the first two not-yet-taken items and the first two
\* not-yet-found clues of the location's lists; every first-two item is
\* taken, and every later entry is left as it was.
C19_SearchTakesFirstTwo ==
    [][\A l \in DOMAIN world.locations :
          Searched(l) =>
              LET before == world.locations[l]
                  after == world'.locations[l]
                  items == Range(FirstTwo(NotYet(before.items_available, before.items_taken)))
                  clues == Range(FirstTwo(NotYet(before.clues_available, before.clues_found)))
                  taken == after.items_taken \ before.items_taken
                  found == after.clues_found \ before.clues_found
              IN  /\ taken \subseteq items /\ Cardinality(taken) <= 2
                  /\ found \subseteq clues /\ Cardinality(found) <= 2
                  /\ Range(world'.player.inventory) \ Range(world.player.inventory)
                         \subseteq items
                  /\ world'.player.clues_found \ world.player.clues_found
                         \subseteq clues \cup {i \in items \cap DOMAIN world.items :
                                                  world.items[i].is_clue}
                  /\ \A i \in items \cap DOMAIN world.items :
                         /\ i \in after.items_taken
                         /\ i \in Range(world'.player.inventory)
                  /\ before.items_taken \subseteq after.items_taken
                  /\ before.clues_found \subseteq after.clues_found]_vars

\* crime_scene after one search: its first two items taken and the third
\* left; room after one search: its first clue found, its second considered
\* and not found, its third left
C19_Witness ==
    /\ {"crime_scene", "room"} \subseteq DOMAIN world.locations
    /\ world.locations["crime_scene"].search_count = 1
    /\ world.locations["crime_scene"].items_taken = {"knife", "note"}
    /\ world.player.inventory = <<"knife", "note">>
    /\ world.locations["room"].search_count = 1
    /\ world.locations["room"].clues_found = {"bloodstain"}

\* the player's score in a skill
Score(player, stat) ==
    CASE stat \in {"investigation", "Investigation"} -> player.stats.investigation
      [] stat \in {"perception", "Perception"} -> player.stats.perception
      [] stat = "persuasion" -> player.stats.persuasion
      [] stat = "intuition" -> player.stats.intuition
      [] stat = "physical" -> player.stats.physical
      [] OTHER -> 0

ThresholdMet(w, c) ==
    \/ w.clues[c].requires_stat = None
    \/ Score(w.player, w.clues[c].requires_stat) >= w.clues[c].requires_stat_level

\* C20: a search finds a candidate clue, marking it found at the location
\* and adding it to the player's clues, iff the clue requires no skill or
\* the player's score reaches the required level; otherwise the clue stays
\* not found and out of the player's clues.  With two available clues that
\* require investigation 5 and 6 and investigation 7, one search leaves no
\* available clue.
C20_ClueFoundIffThresholdMet ==
    [][\A l \in DOMAIN world.locations :
          Searched(l) =>
              LET before == world.locations[l]
                  after == world'.locations[l]
                  avail == NotYet(before.clues_available, before.clues_found)
                  candidates == Range(FirstTwo(avail)) \cap DOMAIN world.clues
              IN  /\ \A c \in candidates :
                         IF ThresholdMet(world, c)
                         THEN /\ c \in after.clues_found
                              /\ c \in world'.player.clues_found
                         ELSE /\ c \notin after.clues_found
                              /\ c \in world'.player.clues_found
                                     <=> c \in world.player.clues_found
                  /\ (/\ Len(avail) = 2
                      /\ Range(avail) \subseteq DOMAIN world.clues
                      /\ {world.clues[c].requires_stat : c \in Range(avail)}
                             = {"investigation"}
                      /\ {world.clues[c].requires_stat_level : c \in Range(avail)} = {5, 6}
                      /\ world.player.stats.investigation = 7)
                         => /\ Range(avail) \subseteq after.clues_found
                            /\ NotYet(after.clues_available, after.clues_found) = << >>]_vars

\* investigation 7 and crime_scene, whose two clues require 5 and 6, after
\* one search: both found, none available
C20_Witness ==
    /\ "crime_scene" \in DOMAIN world.locations
    /\ world.player.stats.investigation = 7
    /\ world.locations["crime_scene"].clues_available = <<"fiber", "residue">>
    /\ world.locations["crime_scene"].search_count = 1
    /\ world.locations["crime_scene"].clues_found = {"fiber", "residue"}
    /\ {"fiber", "residue"} \subseteq world.player.clues_found

(***************************************************************************)
(* Item and clue bookkeeping of a location                                 *)
(***************************************************************************)

\* C21: in every reachable state every location's taken-item set lies within
\* its available-item list and its found-clue set within its available-clue
\* list, and take_item / find_clue on an identifier that is not listed
\* returns False and leaves the location as it was.
C21_TakenWithinAvailable ==
    \A l \in DOMAIN world.locations :
        LET location == world.locations[l]
        IN  /\ location.items_taken \subseteq Range(location.items_available)
            /\ location.clues_found \subseteq Range(location.clues_available)
            /\ \A item_id \in RoomItemInputs \ Range(location.items_available) :
                    take_item(location, item_id) = [location |-> location, ret |-> FALSE]
            /\ \A clue_id \in RoomClueInputs \ Range(location.clues_available) :
                    find_clue(location, clue_id) = [location |-> location, ret |-> FALSE]

\* the room with everything it lists taken and found, after a search
C21_Witness ==
    LET location == world.locations["room"]
    IN  /\ "room" \in DOMAIN world.locations
        /\ location.items_taken = {"knife", "note"}
        /\ location.clues_found = {"bloodstain", "footprint"}
        /\ location.search_count > 0
        /\ ~take_item(location, "keycard").ret

\* C22: a second take_item / find_clue call with the same identifier
\* returns False and leaves the location exactly as the first call left it.
C22_MarkingIsIdempotent ==
    \A l \in DOMAIN world.locations :
        LET location == world.locations[l]
        IN  /\ \A item_id \in RoomItemInputs :
                    LET first == take_item(location, item_id)
                    IN  take_item(first.location, item_id)
                            = [location |-> first.location, ret |-> FALSE]
            /\ \A clue_id \in RoomClueInputs :
                    LET first == find_clue(location, clue_id)
                    IN  find_clue(first.location, clue_id)
                            = [location |-> first.location, ret |-> FALSE]

\* the first call marked something: knife taken and bloodstain found, and
\* the calls are repeated on a location that has been visited and searched
C22_Witness ==
    LET location == world.locations["room"]
    IN  /\ "room" \in DOMAIN world.locations
        /\ "knife" \in location.items_taken
        /\ "bloodstain" \in location.clues_found
        /\ "note" \notin location.items_taken
        /\ take_item(location, "note").ret
        /\ location.visited
        /\ location.search_count > 0

\* C23: at the end of the search action that takes the last remaining item
\* or finds the last remaining clue of a location, the location's state is
\* searched.
C23_ExhaustingSearchMarksSearched ==
    [][\A l \in DOMAIN world.locations :
          (Searched(l) /\ Undiscovered(world.locations[l])
                       /\ ~Undiscovered(world'.locations[l]))
              => world'.locations[l].state = "searched"]_vars

(***************************************************************************)
(* What examine and talk do to the location records                        *)
(***************************************************************************)

TalkInputs == {<<"talk_", n>> : n \in DOMAIN world.npcs \cup {"nobody"}}

\* C24 as stated: an examine action or a talk action leaves every location
\* record (lifecycle state, visited flag, search count, taken and found
\* sets) unchanged.
C24_ExamineAndTalkLeaveLocations ==
    \A action_id \in {<<"examine_location">>} \cup TalkInputs :
        perform_action(world, action_id).world.locations = world.locations

\* C24, amended: a talk action leaves every location record unchanged; an
\* examine action leaves every location other than the player's current
\* one unchanged and, on the current one, sets the visited flag and turns
\* the state available into active, leaving any other state, the search
\* count and the taken and found sets as they were.
C24_ExamineOnlyMarksVisited ==
    /\ \A action_id \in TalkInputs :
           perform_action(world, action_id).world.locations = world.locations
    /\ LET after == perform_action(world, <<"examine_location">>).world.locations
           here == world.player.current_location
       IN  /\ DOMAIN after = DOMAIN world.locations
           /\ \A l \in DOMAIN world.locations \ {here} : after[l] = world.locations[l]
           /\ after[here] =
                  [world.locations[here] EXCEPT
                      !.visited = TRUE,
                      !.state = IF @ = "available" THEN "active" ELSE @]

\* the crime scene examined before any travel or search, and a character
\* talked to: only the examine can have set the flag
C24_Witness ==
    /\ world.current_time = StartTime /\ world.current_day = StartDay
    /\ "crime_scene" \in DOMAIN world.locations
    /\ world.locations["crime_scene"].visited
    /\ world.locations["crime_scene"].state = "active"
    /\ world.locations["crime_scene"].search_count = 0
    /\ \E n \in DOMAIN world.npcs : world.npcs[n].memory.times_talked > 0

(***************************************************************************)
(* The world clock                                                         *)
(***************************************************************************)

\* C25: for every current time in [0, 1440) and every m with 0 <= m < 1440,
\* advance_time(m) leaves the time (old + m) mod 1440 and increments the day
\* by exactly 1 iff old + m >= 1440, leaving it unchanged otherwise.
C25_AdvanceTimeWrapsOncePerDay ==
    \A m \in 0 .. MinutesPerDay - 1 :
        LET old == world.current_time
            new == advance_time(world, m)
        IN  old \in 0 .. MinutesPerDay - 1 =>
                /\ new.current_time = (old + m) % MinutesPerDay
                /\ new.current_day =
                       world.current_day + (IF old + m >= MinutesPerDay THEN 1 ELSE 0)

\* midnight of the second day, reached by a call that lands exactly on 1440
C25_Witness ==
    /\ world.current_day = StartDay + 1
    /\ world.current_time = 0
    /\ DOMAIN world.locations = {}

Elapsed(w) == w.current_day * MinutesPerDay + w.current_time

Travelled == world'.player.current_location # world.player.current_location

\* C26: only a successful travel changes the clock: it advances the time by
\* exactly 15 minutes, the day rolling over at midnight; examine, talk,
\* search and declined travel leave time and day unchanged; the elapsed
\* time (day, time of day) never decreases.
C26_OnlyTravelAdvancesClock ==
    [][/\ Elapsed(world') >= Elapsed(world)
       /\ Travelled =>
              /\ Elapsed(world') = Elapsed(world) + 15
              /\ world'.current_time = (world.current_time + 15) % 1440
              /\ world'.current_time \in 0 .. 1439
       /\ ~Travelled =>
              /\ world'.current_time = world.current_time
              /\ world'.current_day = world.current_day]_vars

\* after midnight of the second day, having travelled across it, searched
\* and talked, at a location from which the gated travel is declined
C26_Witness ==
    /\ world.current_day = StartDay + 1
    /\ world.current_time = 15
    /\ world.player.current_location = "crime_scene"
    /\ world.locations["crime_scene"].search_count > 0
    /\ \E n \in DOMAIN world.npcs : world.npcs[n].memory.times_talked > 0
    /\ perform_action(world, <<"travel_", "vault">>).narrative = "Requirements not met"

(***************************************************************************)
(* Unlocking a quest                                                       *)
(***************************************************************************)

\* C27: is_unlocked(player) is true iff every prerequisite quest is among
\* the player's completed quests, every prerequisite clue among the clues
\* the player has found and, when a required location is set, the player's
\* current location equals it.
C27_UnlockedIffAllThreeHold ==
    \A q \in DOMAIN world.quests :
        LET quest == world.quests[q]
            player == world.player
        IN  is_unlocked(quest, player)
                <=> /\ Range(quest.requires_quests) \subseteq player.completed_quests
                    /\ Range(quest.requires_clues) \subseteq player.clues_found
                    /\ quest.requires_location # None
                           => player.current_location = quest.requires_location

\* the quest of the test, with all three kinds of requirement, unlocked
\* after the player moved to the required location
C27_Witness ==
    /\ "advanced_quest" \in DOMAIN world.quests
    /\ LET quest == world.quests["advanced_quest"]
       IN  /\ quest.requires_quests = <<"tutorial_quest">>
           /\ quest.requires_clues = <<"important_clue">>
           /\ quest.requires_location = "police_station"
           /\ "police_station" \in world.player.locations_visited
           /\ is_unlocked(quest, world.player)

(***************************************************************************)
(* The AI-enhanced engine against the simple engine                        *)
(***************************************************************************)

ActionInputs(w) ==
    {<<"examine_location">>, <<"search">>, <<"dance">>}
        \cup {<<"talk_", n>> : n \in DOMAIN w.npcs \cup {"nobody"}}
        \cup {<<"travel_", l>> : l \in DOMAIN w.locations \cup {"nowhere"}}

\* C28: for every state and action, the AI-enhanced engine leaves the same
\* world whether narration is disabled, succeeds or raises, and that world
\* is the one the simple engine leaves for the same action.
C28_NarrationIsCosmetic ==
    \A action_id \in ActionInputs(world), ai \in NarrativeInputs :
        ai_perform_action(world, action_id, ai).world
            = perform_action(world, action_id).world

\* a session of the AI-enhanced engine that has travelled, searched, talked
\* and completed objectives, at a state from which a travel is possible
\* whose every agent call raises
C28_Witness ==
    /\ world.player.current_location = "room"
    /\ world.current_time > StartTime
    /\ world.locations["crime_scene"].search_count > 0
    /\ world.npcs["guard"].memory.times_talked > 0
    /\ world.quests["case"].completed_objectives # {}
    /\ LET ai == [use_ai |-> TRUE, raises |-> NarrativeCalls]
           r == ai_perform_action(world, <<"travel_", "crime_scene">>, ai)
       IN  /\ r.narrative = "static"
           /\ r.world.player.current_location = "crime_scene"

(***************************************************************************)
(* Save and load                                                           *)
(***************************************************************************)

\* C29: deserializing the serialized snapshot of any reachable world gives
\* an identical world, each location's per-edge unlock predicates included,
\* so that travel between any two locations is allowed after the round
\* trip iff it was before, and the action list is the same.
C29_RoundTripIsIdentity ==
    LET restored == WorldState_from_dict(WorldState_to_dict(world))
    IN  /\ restored = world
        /\ \A l \in DOMAIN world.locations :
               restored.locations[l].connection_requirements
                   = world.locations[l].connection_requirements
        /\ \A from \in DOMAIN world.locations, to \in DOMAIN world.locations :
               can_travel_to(restored.locations[from], to, restored.player, restored)
                   = can_travel_to(world.locations[from], to, world.player, world)
        /\ get_available_actions(restored) = get_available_actions(world)

(***************************************************************************)
(* Mood and relationship tier after modify_trust                           *)
(***************************************************************************)

\* C30: immediately after any modify_trust call the mood and the
\* relationship tier are the step functions of the new trust, each of the
\* boundary values 20, 40, 50, 70, 80 falling in the higher band; talk_to,
\* show_clue, share_clue and move_to change neither mood nor tier.
C30_MoodAndTierRecomputedOnModifyTrust ==
    \A n \in DOMAIN world.npcs :
        LET npc == world.npcs[n]
            Same(other) == /\ other.mood = npc.mood
                           /\ other.relationship_status = npc.relationship_status
                           /\ other.trust_level = npc.trust_level
        IN  /\ \A amount \in Deltas :
                   LET after == modify_trust(npc, amount)
                       trust == after.trust_level
                   IN  /\ trust \in 0..100
                       /\ after.mood = MoodOf(trust)
                       /\ after.relationship_status = TierOf(trust)
                       /\ trust = 20 => after.mood = "suspicious"
                                          /\ after.relationship_status = "stranger"
                       /\ trust = 40 => after.mood = "neutral"
                       /\ trust = 50 => after.relationship_status = "acquaintance"
                       /\ trust = 70 => after.mood = "friendly"
                       /\ trust = 80 => after.relationship_status = "friend"
            /\ \A topic \in Topics : Same(talk_to(npc, topic))
            /\ \A clue_id \in ClueInputs :
                   Same(show_clue(npc, clue_id)) /\ Same(share_clue(npc, clue_id).npc)
            /\ Same(move_to(npc, "downtown"))

\* trust 70, on a boundary of the mood and inside a band of the tier, set
\* by modify_trust (a new character is neutral), the character having been
\* talked to, shown a clue and moved since
C30_Witness ==
    \E n \in DOMAIN world.npcs :
        /\ world.npcs[n].trust_level = 70
        /\ world.npcs[n].mood = "friendly"
        /\ world.npcs[n].relationship_status = "acquaintance"
        /\ world.npcs[n].memory.times_talked > 0
        /\ world.npcs[n].memory.clues_shown # {}
        /\ world.npcs[n].current_location = "downtown"

(***************************************************************************)
(* Progression after a search                                              *)
(***************************************************************************)

\* C31: the re-evaluation that follows a search works on the latest
\* completions: when it ends, no objective in the frontier of an active
\* quest has its trigger holding, an objective whose prerequisite was
\* completed by the same re-evaluation included.
C31_ReevaluationReachesDependents ==
    [][(\E l \in DOMAIN world.locations : Searched(l))
           => NoPendingTrigger(world')]_vars

(***************************************************************************)
(* Actions that the action list does not offer                             *)
(***************************************************************************)

Listed(w) ==
    {get_available_actions(w)[i].id : i \in DOMAIN get_available_actions(w)}

\* C32: perform_action changes the world only for an id that
\* get_available_actions lists in the current state: a talk id of a
\* character who is not at the player's location, or a search id where
\* nothing is left undiscovered, leaves the world as it was.
C32_UnlistedActionChangesNothing ==
    \A action_id \in ActionInputs(world) \ Listed(world) :
        perform_action(world, action_id).world = world

(***************************************************************************)
(* Where the player is                                                     *)
(***************************************************************************)

\* C33: the player's current location is always a registered location and
\* changes only in a travel step (the clock advances) to a neighbor of the
\* previous location whose unlock predicate held in the state left; in the
\* shipped world the player is never at forensics_lab without wine_residue
\* among the collected clues.
C33_LocationChangesOnlyByAllowedTravel ==
    /\ [](/\ world.player.current_location \in DOMAIN world.locations
          /\ world.player.current_location = "forensics_lab"
                 => "wine_residue" \in world.player.clues_found)
    /\ [][Travelled =>
              /\ TravelAllowed(world, world.player.current_location,
                               world'.player.current_location)
              /\ Elapsed(world') = Elapsed(world) + TravelMinutes]_vars

\* the player at forensics_lab, having travelled there through the gated
\* edge from police_station
C33_Witness ==
    /\ world.player.current_location = "forensics_lab"
    /\ "wine_residue" \in world.player.clues_found
    /\ "police_station" \in world.player.locations_visited
    /\ world.locations["forensics_lab"].visited

(***************************************************************************)
(* Completed quests and the player's record                                *)
(***************************************************************************)

\* C34: in every reachable state a quest has status completed iff its
\* identifier is in the player's completed quests.
C34_CompletedQuestsAreRecorded ==
    \A q \in DOMAIN world.quests :
        world.quests[q].status = "completed" <=> q \in world.player.completed_quests

(***************************************************************************)
(* The completed flag and the completed set                                *)
(***************************************************************************)

\* C35: for every quest, after any sequence of add_objective,
\* advance_progress and complete_objective calls, an objective's completed
\* flag is true iff its identifier is in the quest's completed set.
C35_CompletedFlagIffInCompletedSet ==
    \A q \in DOMAIN world.quests :
        \A o \in DOMAIN world.quests[q].objectives :
            world.quests[q].objectives[o].completed
                <=> o \in world.quests[q].completed_objectives

(***************************************************************************)
(* Objectives that no action completes                                     *)
(***************************************************************************)

UntriggeredTypes == {"confront_npc", "solve_puzzle", "make_deduction"}

\* C36: an objective of type confront_npc, solve_puzzle or make_deduction
\* is never completed by the engine: its trigger holds in no reachable
\* state whatever its target, and no such objective of a quest is
\* completed; in the shipped world solve_murder never has status completed
\* and check_win_condition returns (False, "") in every reachable state.
C36_ConfrontObjectiveNeverCompletes ==
    /\ \A type \in UntriggeredTypes,
          target \in DOMAIN world.npcs \cup DOMAIN world.clues \cup {None} :
           ~trigger(QuestObjective(type, target, 1, << >>), world.player)
    /\ \A q \in DOMAIN world.quests :
           \A o \in DOMAIN world.quests[q].objectives :
               world.quests[q].objectives[o].objective_type \in UntriggeredTypes
                   => /\ ~world.quests[q].objectives[o].completed
                      /\ o \notin world.quests[q].completed_objectives
                      /\ world.quests[q].status # "completed"
    /\ world.quests["solve_murder"].status = "active"
    /\ check_win_condition(world) = <<FALSE, "">>

\* every other objective of solve_murder completed, the confronted
\* character met and the two clues of the good ending collected: only
\* final_deduction is left, in the frontier
C36_Witness ==
    /\ "solve_murder" \in DOMAIN world.quests
    /\ world.quests["solve_murder"].completed_objectives
           = {"examine_crime_scene", "collect_evidence", "interview_suspect",
              "get_forensics"}
    /\ InSeq("final_deduction", get_available_objectives(world.quests["solve_murder"]))
    /\ "suspect_sarah" \in world.player.npcs_met
    /\ {"toxicology_report", "fingerprint_match"} \subseteq world.player.clues_found

(***************************************************************************)
(* Disclosure across character and player                                  *)
(***************************************************************************)

\* the disclosable set a character of the shipped world starts with
InitiallyDisclosable(n) == create_sample_mystery.npcs[n].will_share_clues

\* C37: in every reachable state every clue removed from a character's
\* disclosable set since the start of the session is among the player's
\* collected clues, and a clue that is not in the clue registry, which
\* cannot be handed to the player, is still in the disclosable set.
C37_DisclosureIsAtomic ==
    \A n \in DOMAIN world.npcs :
        /\ (InitiallyDisclosable(n) \ world.npcs[n].will_share_clues)
               \subseteq world.player.clues_found
        /\ (InitiallyDisclosable(n) \ DOMAIN world.clues)
               \subseteq world.npcs[n].will_share_clues

\* forensic_tech, talked to, has handed over wine_residue and keeps
\* time_of_death, which the registry does not hold
C37_Witness ==
    /\ "forensic_tech" \in DOMAIN world.npcs
    /\ world.npcs["forensic_tech"].memory.times_talked > 0
    /\ world.npcs["forensic_tech"].will_share_clues = {"time_of_death"}
    /\ "wine_residue" \in world.player.clues_found
    /\ "time_of_death" \notin DOMAIN world.clues
    /\ world.locations["crime_scene"].search_count = 0

(***************************************************************************)
(* Collected clues and inventory against the registries                    *)
(***************************************************************************)

\* C38: in every reachable state every identifier among the player's
\* collected clues is the identifier of a clue in the clue registry.
C38_CollectedCluesAreRegistered ==
    world.player.clues_found \subseteq DOMAIN world.clues

AllTaken(w) == UNION {w.locations[l].items_taken : l \in DOMAIN w.locations}

\* C39: in every state reachable through engine actions the player's
\* inventory holds exactly the items taken at the locations, each once and
\* each a registered item; an item is marked taken at a location in the
\* step that puts it in the inventory.
C39_InventoryIsWhatWasTaken ==
    /\ [](/\ Range(world.player.inventory) = AllTaken(world)
          /\ Cardinality(Range(world.player.inventory)) = Len(world.player.inventory)
          /\ Range(world.player.inventory) \subseteq DOMAIN world.items)
    /\ [][AllTaken(world') \ AllTaken(world)
              = Range(world'.player.inventory) \ Range(world.player.inventory)]_vars

\* an inventory of three items, taken at two locations
C39_Witness ==
    /\ Len(world.player.inventory) = 3
    /\ Cardinality({l \in DOMAIN world.locations :
                        world.locations[l].items_taken # {}}) = 2
    /\ Range(world.player.inventory) = AllTaken(world)

(***************************************************************************)
(* Evidence that repeated searching reaches                                *)
(***************************************************************************)

\* the registered items not yet taken and the registered clues not yet
\* found whose skill requirement the player meets
Collectable(w, l) ==
    {i \in Range(w.locations[l].items_available) \ w.locations[l].items_taken :
        i \in DOMAIN w.items}
    \cup {c \in Range(w.locations[l].clues_available) \ w.locations[l].clues_found :
              c \in DOMAIN w.clues /\ can_find(w, c)}

====
